---- MODULE Spec2Model ----
(***************************************************************************)
(* A model of easy-config: the schema registry (ConfigDef), the value      *)
(* codec (ConfigValue), the validators (Range, ValidString, ValidList) and *)
(* the resolution engine generated by #[derive(EasyConfig)] (config_def /  *)
(* from_props over a once_cell::sync::OnceCell).                           *)
(*                                                                         *)
(* Strings are sequences of one-character strings, so that trimming, case  *)
(* folding, splitting and parsing are computed and not assumed.            *)
(***************************************************************************)
EXTENDS Integers, Sequences, FiniteSets, TLC

(***************************************************************************)
(* Bounds of the model.                                                    *)
(***************************************************************************)
\* threads calling config_def()/from_props() concurrently
NumThreads == 2
\* top-level calls made in one behaviour of the concurrent specification
MaxCalls == 2
\* field declarations of the varied configuration struct
MaxFields == 2
\* characters of the raw strings drawn over an alphabet
MaxStrLen == 3

(***************************************************************************)
(* Option<T>: the empty set is None, a singleton is Some(x).               *)
(***************************************************************************)
None == {}
Some(x) == {x}
IsSome(o) == o # {}
Unwrap(o) == CHOOSE x \in o : TRUE

(***************************************************************************)
(* Result<T, ConfigError>.  ConfigError has three variants, each carrying  *)
(* the key name; the message is kept as a tag and the numbers it formats.  *)
(***************************************************************************)
NoMsg == [text |-> "", n |-> <<0, 1>>, bound |-> 0, list |-> <<>>]
NoErr == [kind |-> "", name |-> "", message |-> NoMsg]

MissingName(name) == [kind |-> "MissingName", name |-> name, message |-> NoMsg]
InvalidValue(name, text) ==
    [kind |-> "InvalidValue", name |-> name,
     message |-> [text |-> text, n |-> <<0, 1>>, bound |-> 0, list |-> <<>>]]
ValidationFailed(name, msg) ==
    [kind |-> "ValidationFailed", name |-> name, message |-> msg]
Msg(text, list) == [text |-> text, n |-> <<0, 1>>, bound |-> 0, list |-> list]

Ok(v) == [ok |-> TRUE, val |-> v, err |-> NoErr]
Err(e) == [ok |-> FALSE, val |-> <<>>, err |-> e]

(***************************************************************************)
(* str::trim, str::to_lowercase over the modelled characters.              *)
(***************************************************************************)
IsWhitespace(c) == c \in {" ", "\t"}

RECURSIVE TrimStart(_)
TrimStart(s) ==
    IF s # <<>> /\ IsWhitespace(Head(s)) THEN TrimStart(Tail(s)) ELSE s

RECURSIVE TrimEnd(_)
TrimEnd(s) ==
    IF s # <<>> /\ IsWhitespace(s[Len(s)])
    THEN TrimEnd(SubSeq(s, 1, Len(s) - 1))
    ELSE s

Trim(s) == TrimEnd(TrimStart(s))

UpperChars == <<"A", "B", "C", "D", "E", "F", "G", "H", "I", "J", "K", "L", "M",
                "N", "O", "P", "Q", "R", "S", "T", "U", "V", "W", "X", "Y", "Z">>
LowerChars == <<"a", "b", "c", "d", "e", "f", "g", "h", "i", "j", "k", "l", "m",
                "n", "o", "p", "q", "r", "s", "t", "u", "v", "w", "x", "y", "z">>

LowerOf(c) ==
    IF \E i \in 1..Len(UpperChars) : UpperChars[i] = c
    THEN LowerChars[CHOOSE i \in 1..Len(UpperChars) : UpperChars[i] = c]
    ELSE c

ToLowercase(s) == [i \in 1..Len(s) |-> LowerOf(s[i])]

Digits == <<"0", "1", "2", "3", "4", "5", "6", "7", "8", "9">>
IsDigit(c) == \E i \in 1..Len(Digits) : Digits[i] = c
DigitVal(c) == (CHOOSE i \in 1..Len(Digits) : Digits[i] = c) - 1

(***************************************************************************)
(* <iN as FromStr>::from_str: an optional sign, then one or more decimal   *)
(* digits, accumulated left to right with a checked multiply-and-add.      *)
(* lo..hi is the range of the integer width.                               *)
(***************************************************************************)
\* checked_mul(10) then checked_add / checked_sub of the digit
RECURSIVE ParseDigits(_, _, _, _, _)
ParseDigits(s, acc, neg, lo, hi) ==
    IF s = <<>> THEN [ok |-> TRUE, val |-> acc, why |-> ""]
    ELSE IF ~IsDigit(Head(s))
    THEN [ok |-> FALSE, val |-> 0, why |-> "invalid digit found in string"]
    ELSE LET d == DigitVal(Head(s))
             minMul == (lo \div 10) + (IF lo % 10 = 0 THEN 0 ELSE 1)
         IN  IF ~neg /\ (acc > hi \div 10 \/ acc * 10 > hi - d)
             THEN [ok |-> FALSE, val |-> 0,
                   why |-> "number too large to fit in target type"]
             ELSE IF neg /\ (acc < minMul \/ acc * 10 < lo + d)
             THEN [ok |-> FALSE, val |-> 0,
                   why |-> "number too small to fit in target type"]
             ELSE ParseDigits(Tail(s), IF neg THEN acc * 10 - d ELSE acc * 10 + d,
                              neg, lo, hi)

FromStrInt(s, lo, hi) ==
    IF s = <<>>
    THEN [ok |-> FALSE, val |-> 0, why |-> "cannot parse integer from empty string"]
    ELSE IF Len(s) = 1 /\ Head(s) \in {"+", "-"}
    THEN [ok |-> FALSE, val |-> 0, why |-> "invalid digit found in string"]
    ELSE IF Head(s) = "+" THEN ParseDigits(Tail(s), 0, FALSE, lo, hi)
    ELSE IF Head(s) = "-" /\ lo < 0 THEN ParseDigits(Tail(s), 0, TRUE, lo, hi)
    ELSE ParseDigits(s, 0, FALSE, lo, hi)

I32Min == -2147483647 - 1
I32Max == 2147483647

(***************************************************************************)
(* <f64 as FromStr>::from_str: [sign] then "inf", "infinity" or "nan" in   *)
(* any letter case, or digits [ '.' digits ] with at least one digit.  A   *)
(* finite value is the exact fraction <<num, den>> with den a power of     *)
(* ten, trailing zeros of the fraction removed; den = 0 marks the special  *)
(* values: <<1, 0>> is +inf, <<-1, 0>> is -inf, <<0, 0>> is NaN.           *)
(* Exponents are not drawn.                                                *)
(***************************************************************************)
RECURSIVE AllDigits(_)
AllDigits(s) == s = <<>> \/ (IsDigit(Head(s)) /\ AllDigits(Tail(s)))

RECURSIVE DigitsVal(_, _)
DigitsVal(s, acc) ==
    IF s = <<>> THEN acc ELSE DigitsVal(Tail(s), acc * 10 + DigitVal(Head(s)))

RECURSIVE Pow10(_)
Pow10(k) == IF k = 0 THEN 1 ELSE 10 * Pow10(k - 1)

RECURSIVE Reduce10(_)
Reduce10(q) ==
    IF q[2] > 1 /\ q[1] % 10 = 0 THEN Reduce10(<<q[1] \div 10, q[2] \div 10>>)
    ELSE q

DotAt(s) == IF \E i \in 1..Len(s) : s[i] = "."
            THEN CHOOSE i \in 1..Len(s) : s[i] = "." /\ \A j \in 1..(i - 1) : s[j] # "."
            ELSE 0

FromStrF64(s) ==
    LET signed == s # <<>> /\ Head(s) \in {"+", "-"}
        neg    == s # <<>> /\ Head(s) = "-"
        body   == IF signed THEN Tail(s) ELSE s
        dot    == DotAt(body)
        int    == IF dot = 0 THEN body ELSE SubSeq(body, 1, dot - 1)
        frac   == IF dot = 0 THEN <<>> ELSE SubSeq(body, dot + 1, Len(body))
        mag    == DigitsVal(int \o frac, 0)
        word   == ToLowercase(body)
    IN  IF word \in {<<"i", "n", "f">>, <<"i", "n", "f", "i", "n", "i", "t", "y">>}
        THEN [ok |-> TRUE, val |-> <<IF neg THEN -1 ELSE 1, 0>>]
        ELSE IF word = <<"n", "a", "n">>
        THEN [ok |-> TRUE, val |-> <<0, 0>>]
        ELSE IF AllDigits(int) /\ AllDigits(frac) /\ Len(int) + Len(frac) > 0
        THEN [ok |-> TRUE,
              val |-> Reduce10(<<IF neg THEN -mag ELSE mag, Pow10(Len(frac))>>)]
        ELSE [ok |-> FALSE, val |-> <<0, 1>>]

\* the f64 comparisons n < b and n > b for a parsed value n and an integral
\* bound b; both are false when n is NaN
FracLt(n, b) == n[1] < b * n[2]
FracGt(n, b) == n[1] > b * n[2]

(***************************************************************************)
(* Validators.  A validator is a record; kind selects the implementation   *)
(* of Validator::validate.                                                 *)
(***************************************************************************)
Range(min, max) ==
    [kind |-> "Range", min |-> min, max |-> max,
     valid_strings |-> <<>>, is_empty_allowed |-> TRUE]
RangeBetween(min, max) == Range(Some(min), Some(max))
RangeAtLeast(min) == Range(Some(min), None)

ValidString(valid_strings) ==
    [kind |-> "ValidString", min |-> None, max |-> None,
     valid_strings |-> valid_strings, is_empty_allowed |-> TRUE]

ValidList(valid_strings, is_empty_allowed) ==
    [kind |-> "ValidList", min |-> None, max |-> None,
     valid_strings |-> valid_strings, is_empty_allowed |-> is_empty_allowed]

\* the public factories of ValidList
ValidListAnyNonDuplicateValues(is_empty_allowed) == ValidList(<<>>, is_empty_allowed)
ValidListInList(valid_strings) == ValidList(valid_strings, TRUE)
ValidListInListAllowEmpty(is_empty_allowed, valid_strings) ==
    ValidList(valid_strings, is_empty_allowed)

Contains(seq, x) == \E i \in 1..Len(seq) : seq[i] = x

RangeValidate(v, name, value) ==
    LET n == FromStrF64(Trim(value))
    IN  IF ~n.ok THEN Err(InvalidValue(name, "Value is not a valid number"))
        ELSE IF IsSome(v.min) /\ FracLt(n.val, Unwrap(v.min))
        THEN Err(ValidationFailed(name,
                 [text |-> "must be at least", n |-> n.val,
                  bound |-> Unwrap(v.min), list |-> <<>>]))
        ELSE IF IsSome(v.max) /\ FracGt(n.val, Unwrap(v.max))
        THEN Err(ValidationFailed(name,
                 [text |-> "must be no more than", n |-> n.val,
                  bound |-> Unwrap(v.max), list |-> <<>>]))
        ELSE Ok(<<>>)

\* validate comparing without regard to letter case
ValidStringValidateIgnoreCase(v, name, value) ==
    LET s == ToLowercase(Trim(value))
    IN  IF ~(\E i \in 1..Len(v.valid_strings) : ToLowercase(v.valid_strings[i]) = s)
        THEN Err(ValidationFailed(name, Msg("String must be one of", v.valid_strings)))
        ELSE Ok(<<>>)

ValidStringValidate(v, name, value) ==
    LET s == Trim(value)
    IN  IF ~Contains(v.valid_strings, s)
        THEN Err(ValidationFailed(name, Msg("String must be one of", v.valid_strings)))
        ELSE Ok(<<>>)

\* str::split(','): the pieces between the separators; "" yields one empty piece
RECURSIVE SplitFrom(_, _, _)
SplitFrom(s, sep, cur) ==
    IF s = <<>> THEN <<cur>>
    ELSE IF Head(s) = sep THEN <<cur>> \o SplitFrom(Tail(s), sep, <<>>)
    ELSE SplitFrom(Tail(s), sep, Append(cur, Head(s)))

Split(s, sep) == SplitFrom(s, sep, <<>>)

ToSet(seq) == {seq[i] : i \in 1..Len(seq)}

\* validate holding every item against the allow-list, an empty one too
ValidListValidateStrict(v, name, value) ==
    LET pieces     == Split(Trim(value), ",")
        values_str == [i \in 1..Len(pieces) |-> Trim(pieces[i])]
        values     == IF Len(values_str) = 1 /\ values_str[1] = <<>>
                      THEN <<>> ELSE values_str
        bad        == {i \in 1..Len(values) :
                          \/ values[i] = <<>>
                          \/ ~Contains(v.valid_strings, values[i])}
        first      == CHOOSE i \in bad : \A j \in bad : i <= j
    IN  IF ~v.is_empty_allowed /\ values = <<>>
        THEN Err(ValidationFailed(name,
                 IF v.valid_strings = <<>>
                 THEN Msg("must not be empty. Valid values include: any non-empty value",
                          <<>>)
                 ELSE Msg("must not be empty. Valid values include: (empty not allowed)",
                          v.valid_strings)))
        ELSE IF Cardinality(ToSet(values)) # Len(values)
        THEN Err(ValidationFailed(name, Msg("values must not be duplicated.", <<>>)))
        ELSE IF bad # {}
        THEN IF values[first] = <<>>
             THEN Err(ValidationFailed(name, Msg("values must not be empty.", <<>>)))
             ELSE Err(ValidationFailed(name,
                      [text |-> "Invalid value: String must be one of",
                       n |-> <<0, 1>>, bound |-> 0,
                       list |-> <<values[first]>> \o v.valid_strings]))
        ELSE Ok(<<>>)

\* validate with the per-item check ahead of the duplicate check
ValidListValidateItemsFirst(v, name, value) ==
    LET pieces     == Split(Trim(value), ",")
        values_str == [i \in 1..Len(pieces) |-> Trim(pieces[i])]
        values     == IF Len(values_str) = 1 /\ values_str[1] = <<>>
                      THEN <<>> ELSE values_str
        bad        == {i \in 1..Len(values) :
                          \/ values[i] = <<>>
                          \/ /\ v.valid_strings # <<>>
                             /\ ~Contains(v.valid_strings, values[i])}
        first      == CHOOSE i \in bad : \A j \in bad : i <= j
    IN  IF ~v.is_empty_allowed /\ values = <<>>
        THEN Err(ValidationFailed(name,
                 IF v.valid_strings = <<>>
                 THEN Msg("must not be empty. Valid values include: any non-empty value",
                          <<>>)
                 ELSE Msg("must not be empty. Valid values include: (empty not allowed)",
                          v.valid_strings)))
        ELSE IF bad # {}
        THEN IF values[first] = <<>>
             THEN Err(ValidationFailed(name, Msg("values must not be empty.", <<>>)))
             ELSE Err(ValidationFailed(name,
                      [text |-> "Invalid value: String must be one of",
                       n |-> <<0, 1>>, bound |-> 0,
                       list |-> <<values[first]>> \o v.valid_strings]))
        ELSE IF Cardinality(ToSet(values)) # Len(values)
        THEN Err(ValidationFailed(name, Msg("values must not be duplicated.", <<>>)))
        ELSE Ok(<<>>)

ValidListValidate(v, name, value) ==
    LET pieces     == Split(Trim(value), ",")
        values_str == [i \in 1..Len(pieces) |-> Trim(pieces[i])]
        values     == IF Len(values_str) = 1 /\ values_str[1] = <<>>
                      THEN <<>> ELSE values_str
        bad        == {i \in 1..Len(values) :
                          \/ values[i] = <<>>
                          \/ /\ v.valid_strings # <<>>
                             /\ ~Contains(v.valid_strings, values[i])}
        first      == CHOOSE i \in bad : \A j \in bad : i <= j
    IN  IF ~v.is_empty_allowed /\ values = <<>>
        THEN Err(ValidationFailed(name,
                 IF v.valid_strings = <<>>
                 THEN Msg("must not be empty. Valid values include: any non-empty value",
                          <<>>)
                 ELSE Msg("must not be empty. Valid values include: (empty not allowed)",
                          v.valid_strings)))
        ELSE IF Cardinality(ToSet(values)) # Len(values)
        THEN Err(ValidationFailed(name, Msg("values must not be duplicated.", <<>>)))
        ELSE IF bad # {}
        THEN IF values[first] = <<>>
             THEN Err(ValidationFailed(name, Msg("values must not be empty.", <<>>)))
             ELSE Err(ValidationFailed(name,
                      [text |-> "Invalid value: String must be one of",
                       n |-> <<0, 1>>, bound |-> 0,
                       list |-> <<values[first]>> \o v.valid_strings]))
        ELSE Ok(<<>>)

Validate(v, name, value) ==
    CASE v.kind = "Range"       -> RangeValidate(v, name, value)
      [] v.kind = "ValidString" -> ValidStringValidate(v, name, value)
      [] v.kind = "ValidList"   -> ValidListValidate(v, name, value)

(***************************************************************************)
(* ConfigValue::parse, per field type.                                     *)
(***************************************************************************)
\* parse of an integer that clamps a literal outside the width
ParseI32Saturating(key, s) ==
    LET r == FromStrInt(ToLowercase(Trim(s)), I32Min, I32Max)
    IN  IF r.ok THEN Ok(r.val)
        ELSE IF r.why = "number too large to fit in target type" THEN Ok(I32Max)
        ELSE IF r.why = "number too small to fit in target type" THEN Ok(I32Min)
        ELSE Err(InvalidValue(key, r.why))

ParseI32(key, s) ==
    LET r == FromStrInt(ToLowercase(Trim(s)), I32Min, I32Max)
    IN  IF r.ok THEN Ok(r.val) ELSE Err(InvalidValue(key, r.why))

\* parse of a boolean without the case fold
ParseBoolCaseSensitive(key, s) ==
    LET t == Trim(s)
    IN  IF t = <<"t", "r", "u", "e">> THEN Ok(TRUE)
        ELSE IF t = <<"f", "a", "l", "s", "e">> THEN Ok(FALSE)
        ELSE Err(InvalidValue(key, "provided string was not true or false"))

ParseBool(key, s) ==
    LET t == ToLowercase(Trim(s))
    IN  IF t = <<"t", "r", "u", "e">> THEN Ok(TRUE)
        ELSE IF t = <<"f", "a", "l", "s", "e">> THEN Ok(FALSE)
        ELSE Err(InvalidValue(key, "provided string was not true or false"))

ParseString(key, s) == Ok(Trim(s))

\* a list codec that makes one empty item of a blank string
ParseVecStringOneBlank(key, s) ==
    LET pieces == Split(Trim(s), ",")
    IN  Ok([i \in 1..Len(pieces) |-> Trim(pieces[i])])

ParseVecString(key, s) ==
    LET t      == Trim(s)
        pieces == Split(t, ",")
    IN  IF t = <<>> THEN Ok(<<>>)
        ELSE Ok([i \in 1..Len(pieces) |-> Trim(pieces[i])])

\* Password::new: the secret wrapped in its own type
PasswordNew(s) == [password |-> s]

ParsePassword(key, s) == Ok(PasswordNew(Trim(s)))

Parse(ty, key, s) ==
    CASE ty = "i32"         -> ParseI32(key, s)
      [] ty = "bool"        -> ParseBool(key, s)
      [] ty = "String"      -> ParseString(key, s)
      [] ty = "Password"    -> ParsePassword(key, s)
      [] ty = "Vec<String>" -> ParseVecString(key, s)

(***************************************************************************)
(* ConfigValue::to_config_string, per field type.  Integers and booleans   *)
(* go through ToString (Display); a list is joined with ",".               *)
(***************************************************************************)
\* the decimal digits of n >= 0, most significant first; none for 0
RECURSIVE NatDigits(_)
NatDigits(n) ==
    IF n = 0 THEN <<>> ELSE Append(NatDigits(n \div 10), Digits[(n % 10) + 1])

\* the decimal digits of the magnitude of n <= 0
RECURSIVE NegDigits(_)
NegDigits(n) ==
    IF n = 0 THEN <<>>
    ELSE LET d == (10 - (n % 10)) % 10
         IN  Append(NegDigits((n + d) \div 10), Digits[d + 1])

\* <i32 as Display>::fmt
ToStringInt(n) ==
    IF n = 0 THEN <<"0">>
    ELSE IF n < 0 THEN <<"-">> \o NegDigits(n)
    ELSE NatDigits(n)

\* <bool as Display>::fmt
ToStringBool(b) == IF b THEN <<"t", "r", "u", "e">> ELSE <<"f", "a", "l", "s", "e">>

\* [String]::join
RECURSIVE Join(_, _)
Join(list, sep) ==
    IF list = <<>> THEN <<>>
    ELSE IF Len(list) = 1 THEN list[1]
    ELSE list[1] \o sep \o Join(Tail(list), sep)

ToConfigStringI32(v) == ToStringInt(v)
ToConfigStringBool(v) == ToStringBool(v)
ToConfigStringString(v) == v
\* the list joined with a blank in place of the separator
ToConfigStringVecStringSpaced(v) == Join(v, <<" ">>)
ToConfigStringVecString(v) == Join(v, <<",">>)

\* the secret shown where the real string is wanted
ToConfigStringHidden(v) == <<"[", "h", "i", "d", "d", "e", "n", "]">>

ToConfigStringPassword(v) == v.password

ToConfigString(ty, v) ==
    CASE ty = "i32"         -> ToConfigStringI32(v)
      [] ty = "bool"        -> ToConfigStringBool(v)
      [] ty = "String"      -> ToConfigStringString(v)
      [] ty = "Password"    -> ToConfigStringPassword(v)
      [] ty = "Vec<String>" -> ToConfigStringVecString(v)

\* <Password as Display>::fmt and Debug: a fixed placeholder
PasswordDisplay(v) == <<"[", "h", "i", "d", "d", "e", "n", "]">>

(***************************************************************************)
(* ConfigKey, ConfigDef and the registry construction.  config_keys is an  *)
(* IndexMap: a sequence of keys in insertion order, at most one per name.  *)
(***************************************************************************)
ConfigKey(name, default_value, validator, group) ==
    [name |-> name, documentation |-> Some("docs"), default_value |-> default_value,
     validator |-> validator, importance |-> Some("HIGH"), group |-> group,
     internal_config |-> FALSE]

EmptyBuilder == <<>>

HasName(config_keys, name) == \E i \in 1..Len(config_keys) : config_keys[i].name = name

\* an insert that puts a new name ahead of the ones already there
IndexMapInsertFront(config_keys, key) ==
    IF HasName(config_keys, key.name)
    THEN LET i == CHOOSE i \in 1..Len(config_keys) : config_keys[i].name = key.name
         IN  [map |-> [config_keys EXCEPT ![i] = key], old |-> Some(config_keys[i])]
    ELSE [map |-> <<key>> \o config_keys, old |-> None]

\* IndexMap::insert: replaces the value of an existing name (keeping its place) and
\* returns the old value, else appends and returns None
IndexMapInsert(config_keys, key) ==
    IF HasName(config_keys, key.name)
    THEN LET i == CHOOSE i \in 1..Len(config_keys) : config_keys[i].name = key.name
         IN  [map |-> [config_keys EXCEPT ![i] = key], old |-> Some(config_keys[i])]
    ELSE [map |-> Append(config_keys, key), old |-> None]

DefinedTwice(name) ==
    ValidationFailed(name, Msg("Configuration key is defined twice.", <<>>))

\* a registry in which the first descriptor of a name silently stays
DefineFirstWins(config_keys, key) ==
    IF HasName(config_keys, key.name) THEN Ok(config_keys)
    ELSE Ok(IndexMapInsert(config_keys, key).map)

\* a registry in which the last descriptor of a name silently wins
DefineLastWins(config_keys, key) == Ok(IndexMapInsert(config_keys, key).map)

\* one round of the insertion loop: Err on a name that is already there
Define(config_keys, key) ==
    LET r == IndexMapInsert(config_keys, key)
    IN  IF IsSome(r.old) THEN Err(DefinedTwice(Unwrap(r.old).name)) ELSE Ok(r.map)

RECURSIVE DefineAll(_, _)
DefineAll(config_keys, keys) ==
    IF keys = <<>> THEN Ok(config_keys)
    ELSE LET r == Define(config_keys, Head(keys))
         IN  IF r.ok THEN DefineAll(r.val, Tail(keys)) ELSE r

\* the distinct group labels in first-seen order
RECURSIVE Groups(_, _)
Groups(config_keys, seen) ==
    IF config_keys = <<>> THEN <<>>
    ELSE LET g == Head(config_keys).group
         IN  IF IsSome(g) /\ Unwrap(g) \notin seen
             THEN <<Unwrap(g)>> \o Groups(Tail(config_keys), seen \cup {Unwrap(g)})
             ELSE Groups(Tail(config_keys), seen)

Build(config_keys) == [config_keys |-> config_keys, _groups |-> Groups(config_keys, {})]

TryFrom(keys) ==
    LET r == DefineAll(EmptyBuilder, keys)
    IN  IF r.ok THEN Ok(Build(r.val)) ELSE r

find_key(def, name) ==
    IF HasName(def.config_keys, name)
    THEN Some(def.config_keys[CHOOSE i \in 1..Len(def.config_keys) :
                                  def.config_keys[i].name = name])
    ELSE None

config_keys(def) == def.config_keys

(***************************************************************************)
(* The per-field code of the generated from_props.  props is a function    *)
(* from the names present in the raw map to their raw strings.             *)
(***************************************************************************)
\* a lookup that answers a missing name with some other entry of the map
PropsGetAnyEntry(props, name) ==
    IF name \in DOMAIN props THEN Some(props[name])
    ELSE IF DOMAIN props # {} THEN Some(props[CHOOSE k \in DOMAIN props : TRUE])
    ELSE None

PropsGet(props, name) == IF name \in DOMAIN props THEN Some(props[name]) ELSE None

\* the default taken before the raw map
OrElseDefaultFirst(a, b) == IF IsSome(b) THEN b ELSE a

\* an empty string counted as no value at all
OrElseNonEmpty(a, b) ==
    IF IsSome(a) /\ Unwrap(a) # <<>> THEN a
    ELSE IF IsSome(b) /\ Unwrap(b) # <<>> THEN b
    ELSE None

\* Option::or
OrElse(a, b) == IF IsSome(a) THEN a ELSE b

\* a failed validation of the supplied value answered with the default
get_valueFallsBack(def, props, name) ==
    LET meta    == Unwrap(find_key(def, name))
        val_str == OrElse(PropsGet(props, name), meta.default_value)
        bad     == /\ IsSome(val_str) /\ IsSome(meta.validator)
                   /\ ~Validate(Unwrap(meta.validator), name, Unwrap(val_str)).ok
    IN  IF ~IsSome(val_str) THEN Err(MissingName(name))
        ELSE IF bad /\ IsSome(meta.default_value) THEN Ok(Unwrap(meta.default_value))
        ELSE IF bad THEN Validate(Unwrap(meta.validator), name, Unwrap(val_str))
        ELSE Ok(Unwrap(val_str))

\* a default returned without being validated
get_valueTrustsDefault(def, props, name) ==
    LET meta    == Unwrap(find_key(def, name))
        given   == PropsGet(props, name)
        val_str == OrElse(given, meta.default_value)
    IN  IF ~IsSome(val_str) THEN Err(MissingName(name))
        ELSE IF IsSome(given) /\ IsSome(meta.validator)
                /\ ~Validate(Unwrap(meta.validator), name, Unwrap(given)).ok
        THEN Validate(Unwrap(meta.validator), name, Unwrap(given))
        ELSE Ok(Unwrap(val_str))

\* the closure get_value of from_props
get_value(def, props, name) ==
    LET meta == find_key(def, name)
    IN  IF ~IsSome(meta) THEN Err(MissingName(name))
        ELSE LET val_str == OrElse(PropsGet(props, name), Unwrap(meta).default_value)
             IN  IF ~IsSome(val_str) THEN Err(MissingName(name))
                 ELSE LET v == IF IsSome(Unwrap(meta).validator)
                               THEN Validate(Unwrap(Unwrap(meta).validator), name,
                                             Unwrap(val_str))
                               ELSE Ok(<<>>)
                      IN  IF ~v.ok THEN v ELSE Ok(Unwrap(val_str))

\* a field whose raw string is parsed before its validator sees it
RequiredFieldParseFirst(def, props, ty, name) ==
    LET r   == get_value(def, props, name)
        raw == OrElse(PropsGet(props, name),
                      IF IsSome(find_key(def, name))
                      THEN Unwrap(find_key(def, name)).default_value ELSE None)
    IN  IF ~IsSome(raw) THEN r
        ELSE IF ~Parse(ty, name, Unwrap(raw)).ok THEN Parse(ty, name, Unwrap(raw))
        ELSE IF ~r.ok THEN r
        ELSE Parse(ty, name, r.val)

\* a field parsed without its key name handed to the codec
RequiredFieldUnnamed(def, props, ty, name) ==
    LET r == get_value(def, props, name)
    IN  IF ~r.ok THEN r ELSE Parse(ty, "", r.val)

\* a field of type T (not Option): T::parse(key, get_value(key)?)?
RequiredField(def, props, ty, name) ==
    LET r == get_value(def, props, name)
    IN  IF ~r.ok THEN r ELSE Parse(ty, name, r.val)

\* an Option<T> field resolved as a T field: absent is an error
OptionFieldAsRequired(def, props, ty, name) ==
    LET r == RequiredField(def, props, ty, name)
    IN  IF r.ok THEN Ok(Some(r.val)) ELSE r

\* a field of type Option<T>
OptionField(def, props, ty, name) ==
    LET meta == find_key(def, name)
    IN  IF ~IsSome(meta) THEN Err(MissingName(name))
        ELSE LET val_str == OrElse(PropsGet(props, name), Unwrap(meta).default_value)
             IN  IF ~IsSome(val_str) THEN Ok(None)
                 ELSE LET v == IF IsSome(Unwrap(meta).validator)
                               THEN Validate(Unwrap(Unwrap(meta).validator), name,
                                             Unwrap(val_str))
                               ELSE Ok(<<>>)
                          p == Parse(ty, name, Unwrap(val_str))
                      IN  IF ~v.ok THEN v
                          ELSE IF ~p.ok THEN p ELSE Ok(Some(p.val))

(***************************************************************************)
(* The derive input: three configuration structs.  TestConfig1 is varied,  *)
(* TestConfig2 has one required String field, MergeTestConfig merges the   *)
(* two with #[merge].                                                      *)
(***************************************************************************)
Structs == {"TestConfig1", "TestConfig2", "MergeTestConfig"}
Threads == 1..NumThreads

NoKey == ConfigKey("", None, None, None)

Plain(ty, optional, key) ==
    [merge |-> FALSE, sub |-> "", field |-> key.name, ty |-> ty,
     optional |-> optional, key |-> key]
Merge(field, sub) ==
    [merge |-> TRUE, sub |-> sub, field |-> field, ty |-> "",
     optional |-> FALSE, key |-> NoKey]

S5 == <<"5">>
S20 == <<"2", "0">>
SNeg1 == <<"-", "1">>
SPad1 == <<" ", "1", " ">>
SX == <<"x">>
SY == <<"y">>

\* the field declarations TestConfig1 is built from, for a key name n
FieldChoices(n) ==
    { Plain("i32", FALSE, ConfigKey(n, None, None, None)),
      Plain("i32", FALSE, ConfigKey(n, Some(S5), Some(RangeBetween(0, 14)), Some("g"))),
      Plain("i32", FALSE, ConfigKey(n, Some(SNeg1), Some(RangeBetween(0, 10)), None)),
      Plain("String", TRUE, ConfigKey(n, None, Some(ValidString(<<SX, SY>>)), Some("h"))),
      Plain("i32", FALSE, ConfigKey(n, Some(SX), Some(RangeBetween(0, 10)), None)),
      Plain("i32", TRUE, ConfigKey(n, Some(S5), Some(RangeBetween(0, 14)), None)) }

KeyNames == {"a", "b"}
AllFieldChoices == UNION {FieldChoices(n) : n \in KeyNames}

\* declarations after the second one repeat a key name: a bare required key or
\* one with a default, a validator and a group
RepeatChoices ==
    UNION {{ Plain("i32", FALSE, ConfigKey(n, None, None, None)),
             Plain("i32", FALSE, ConfigKey(n, Some(S5), Some(RangeBetween(0, 14)), Some("g"))) }
           : n \in KeyNames}

\* the sequences of 1..n declarations; the first one is named "a"
RECURSIVE DeclSeqs(_)
DeclSeqs(n) ==
    IF n = 1 THEN {<<x>> : x \in FieldChoices("a")}
    ELSE LET shorter == DeclSeqs(n - 1)
             next    == IF n <= Cardinality(KeyNames) THEN AllFieldChoices ELSE RepeatChoices
         IN  shorter \cup {Append(q, x) : q \in {r \in shorter : Len(r) = n - 1},
                                          x \in next}

TestConfig1Choices == DeclSeqs(MaxFields)

TestConfig2Decl == <<Plain("String", FALSE, ConfigKey("b", None, None, Some("g")))>>

MergeTestConfigDecl == <<Merge("config1", "TestConfig1"), Merge("config2", "TestConfig2")>>

Decls(tc1) ==
    [ty \in Structs |->
        CASE ty = "TestConfig1"     -> tc1
          [] ty = "TestConfig2"     -> TestConfig2Decl
          [] ty = "MergeTestConfig" -> MergeTestConfigDecl]

\* raw property maps: every map from a subset of the key names to a raw string
RawStrings == {S5, S20, SX, SPad1}
PropsOver(names, strings) == UNION {[D -> strings] : D \in SUBSET names}
AllProps == PropsOver(KeyNames, RawStrings)

(***************************************************************************)
(* Stand-alone calls of the library: Validator::validate on a validator    *)
(* made by a public factory, and ConfigValue::parse / to_config_string.    *)
(* The raw strings are all strings of up to MaxStrLen characters over a    *)
(* small alphabet per function, and a few longer words.                    *)
(***************************************************************************)
RECURSIVE StringsOver(_, _)
StringsOver(chars, n) ==
    IF n = 0 THEN {<<>>}
    ELSE LET shorter == StringsOver(chars, n - 1)
         IN  shorter \cup {Append(q, c) : q \in {r \in shorter : Len(r) = n - 1},
                                          c \in chars}

NumberChars == {"0", "1", "5", "9", "-", "+", ".", " "}
NumberWords ==
    { <<"N", "a", "N">>, <<"i", "n", "f">>, <<"-", "i", "n", "f">>, <<"x">> }
\* i32::MAX, i32::MIN and i32::MAX + 1
IntWords ==
    { <<"2", "1", "4", "7", "4", "8", "3", "6", "4", "7">>,
      <<"-", "2", "1", "4", "7", "4", "8", "3", "6", "4", "8">>,
      <<"2", "1", "4", "7", "4", "8", "3", "6", "4", "8">> }
NumberStrings == StringsOver(NumberChars, MaxStrLen) \cup NumberWords

BoolWords ==
    { <<"t", "r", "u", "e">>, <<"T", "R", "U", "E">>, <<"F", "a", "l", "S", "E">>,
      <<"f", "a", "l", "s", "e">>, <<" ", "t", "r", "u", "e", " ">>,
      <<"t", "r", "u">>, <<"y", "e", "s">>, <<"1">>, <<>> }

WordChars == {"a", "b", "A", " "}
WordStrings == StringsOver(WordChars, MaxStrLen)

ListChars == {"a", "b", "d", ",", " "}
ListStrings == StringsOver(ListChars, MaxStrLen)

\* the validators the public factories make, over a few bounds and literals
RangeBounds == {0, 5, 10}
PublicRanges ==
    {RangeAtLeast(m) : m \in RangeBounds}
        \cup {RangeBetween(a, b) : a \in RangeBounds, b \in RangeBounds}
PublicValidStrings == {ValidString(<<<<"a">>, <<"a", "b">>>>), ValidString(<<>>)}
PublicValidLists ==
    { ValidListAnyNonDuplicateValues(TRUE), ValidListAnyNonDuplicateValues(FALSE),
      ValidListInList(<<<<"a">>, <<"b">>>>),
      ValidListInListAllowEmpty(FALSE, <<<<"a">>, <<"b">>>>) }

ValidateArg(v, value) ==
    [fn |-> "validate", validator |-> Some(v), ty |-> "", name |-> "k", value |-> value]
ParseArg(ty, value) ==
    [fn |-> "parse", validator |-> None, ty |-> ty, name |-> "k", value |-> value]
NoArg == [fn |-> "", validator |-> None, ty |-> "", name |-> "", value |-> <<>>]

\* the validate calls on the given validators, each with every raw string
\* of its kind
ValidateArgs(validators) ==
    {ValidateArg(v, s) : v \in validators \cap PublicRanges, s \in NumberStrings}
        \cup {ValidateArg(v, s) : v \in validators \cap PublicValidStrings, s \in WordStrings}
        \cup {ValidateArg(v, s) : v \in validators \cap PublicValidLists, s \in ListStrings}

\* the parse calls on the given codec types
ParseArgs(types) ==
    {ParseArg("i32", s) : s \in IF "i32" \in types THEN NumberStrings \cup IntWords ELSE {}}
        \cup {ParseArg("bool", s) : s \in IF "bool" \in types THEN BoolWords ELSE {}}
        \cup {ParseArg(ty, s) : ty \in types \cap {"String", "Password"}, s \in WordStrings}
        \cup {ParseArg("Vec<String>", s) :
                  s \in IF "Vec<String>" \in types THEN ListStrings ELSE {}}

(***************************************************************************)
(* State.                                                                  *)
(***************************************************************************)
VARIABLES
    arg,       \* the stand-alone library call under way (fixed by Init)
    out,       \* what the stand-alone call has returned so far
    decls,     \* the field declarations of each struct (fixed by Init)
    mode,      \* who calls: "seq" one caller, "conc" every thread (fixed by Init)
    cell,      \* CONFIG_DEF of each struct: the OnceCell's state, value and generation
    stack,     \* each thread's call stack of config_def / from_props frames
    result,    \* each thread's last completed top-level call and what it returned
    calls,     \* top-level calls still to be made
    runs,      \* history: how often each struct's construction closure was entered
    builds,    \* history: how often each struct's construction closure returned Ok
    log        \* history: the key names each thread's top-level from_props looked up

vars == <<arg, out, decls, mode, cell, stack, result, calls, runs, builds, log>>

NoOut == [validated |-> None, parsed |-> None, string |-> None,
          reparsed |-> None, shown |-> None]

EmptyCell == [state |-> "INCOMPLETE", value |-> None, gen |-> 0]
NoProps == <<>>

Frame(fn, ty, pc, props) ==
    [fn |-> fn, ty |-> ty, pc |-> pc, idx |-> 1, run |-> 0, builder |-> EmptyBuilder,
     props |-> props, def |-> None, vals |-> <<>>, ret |-> None]

Top(t) == stack[t][Len(stack[t])]
Running(t) == stack[t] # <<>>

\* the &'static ConfigDef a caller holds, and what it points at
Ref(ty) == [ty |-> ty, gen |-> cell[ty].gen]
Deref(ref) == Unwrap(cell[ref.ty].value)

SetTop(t, f) == [stack EXCEPT ![t][Len(stack[t])] = f]
Push(st, f) == Append(st, f)

\* return res from the top frame of st: to the caller's frame, if there is one
Pop(st, res) ==
    LET rest == SubSeq(st, 1, Len(st) - 1)
    IN  IF rest = <<>> THEN rest ELSE [rest EXCEPT ![Len(rest)].ret = Some(res)]

Return(t, res) ==
    /\ stack' = [stack EXCEPT ![t] = Pop(stack[t], res)]
    /\ result' = IF Len(stack[t]) = 1
                 THEN [result EXCEPT ![t] =
                          Some([fn |-> Top(t).fn, ty |-> Top(t).ty,
                                props |-> Top(t).props, res |-> res])]
                 ELSE result

InitCommon ==
    /\ cell = [ty \in Structs |-> EmptyCell]
    /\ stack = [t \in Threads |-> <<>>]
    /\ result = [t \in Threads |-> None]
    /\ runs = [ty \in Structs |-> 0]
    /\ builds = [ty \in Structs |-> 0]
    /\ log = [t \in Threads |-> <<>>]

\* one caller making one call, for every declaration list and every raw map
Init ==
    /\ decls \in {Decls(tc1) : tc1 \in TestConfig1Choices}
    /\ mode = "seq"
    /\ calls = 1
    /\ arg = NoArg /\ out = NoOut
    /\ InitCommon

\* every thread calls; a valid schema, a duplicated key, a key shared with
\* TestConfig2 and a default outside its range
ConcChoices ==
    { <<Plain("i32", FALSE, ConfigKey("a", Some(S5), Some(RangeBetween(0, 14)), Some("g")))>>,
      <<Plain("i32", FALSE, ConfigKey("a", Some(S5), Some(RangeBetween(0, 14)), Some("g"))),
        Plain("i32", FALSE, ConfigKey("a", None, None, None))>>,
      <<Plain("i32", FALSE, ConfigKey("b", None, None, None))>>,
      <<Plain("i32", FALSE, ConfigKey("a", Some(SNeg1), Some(RangeBetween(0, 10)), None))>> }

ConcProps == { [k \in KeyNames |-> IF k = "a" THEN S5 ELSE SX] }

InitConc ==
    /\ decls \in {Decls(tc1) : tc1 \in ConcChoices}
    /\ mode = "conc"
    /\ calls = MaxCalls
    /\ arg = NoArg /\ out = NoOut
    /\ InitCommon

\* one stand-alone call of validate or of the codec, for every input
InitLib ==
    /\ decls = Decls(<<Plain("i32", FALSE, ConfigKey("a", None, None, None))>>)
    /\ mode = "lib"
    /\ calls = 0
    /\ arg \in ValidateArgs(PublicRanges \cup PublicValidStrings \cup PublicValidLists)
                \cup ParseArgs({"i32", "bool", "String", "Password", "Vec<String>"})
    /\ out = NoOut
    /\ InitCommon

\* one required field "a" per codec type, resolved from literals of every
\* sort: in and out of the i32 range, fractional, words, and no entry at all
I64MaxLiteral ==
    <<"9", "2", "2", "3", "3", "7", "2", "0", "3", "6",
      "8", "5", "4", "7", "7", "5", "8", "0", "7">>
I32MaxLiteral == <<"2", "1", "4", "7", "4", "8", "3", "6", "4", "7">>
I32MaxPlus1Literal == <<"2", "1", "4", "7", "4", "8", "3", "6", "4", "8">>
I32MinLiteral == <<"-", "2", "1", "4", "7", "4", "8", "3", "6", "4", "8">>
I32MinMinus1Literal == <<"-", "2", "1", "4", "7", "4", "8", "3", "6", "4", "9">>

TypedChoices ==
    { <<Plain("i32", FALSE, ConfigKey("a", None, None, None))>>,
      <<Plain("i32", FALSE, ConfigKey("a", None, Some(RangeBetween(0, 14)), None))>>,
      <<Plain("bool", FALSE, ConfigKey("a", None, None, None))>>,
      <<Plain("String", FALSE, ConfigKey("a", Some(<<>>), None, None))>>,
      <<Plain("String", FALSE, ConfigKey("a", Some(SX), None, None))>>,
      <<Plain("String", FALSE, ConfigKey("a", None, None, None))>> }

ShortLiterals ==
    { <<"0">>, <<"1">>, S5, S20, SNeg1, SPad1, <<"5", ".", "5">>, <<"2", "0", ".", "5">>,
      <<"T", "R", "U", "E">>, <<"F", "a", "l", "S", "E">>, <<"h", "e", "l", "l", "o">>,
      <<>> }
LongLiterals ==
    {I64MaxLiteral, I32MaxLiteral, I32MaxPlus1Literal, I32MinLiteral, I32MinMinus1Literal}

\* the raw maps for a declaration list: the long literals go to fields
\* without a validator
TypedProps(tc1) ==
    PropsOver({"a"}, ShortLiterals
                        \cup (IF tc1[1].key.validator = None THEN LongLiterals ELSE {}))

InitTyped ==
    /\ decls \in {Decls(tc1) : tc1 \in TypedChoices}
    /\ mode = "typed"
    /\ calls = 1
    /\ arg = NoArg /\ out = NoOut
    /\ InitCommon

Callers == IF mode = "conc" THEN Threads ELSE {1}
PropsOf ==
    CASE mode = "seq"   -> AllProps
      [] mode = "typed" -> TypedProps(decls["TestConfig1"])
      [] OTHER          -> ConcProps

(***************************************************************************)
(* Top-level calls.                                                        *)
(***************************************************************************)
CallConfigDef(t, ty) ==
    /\ t \in Callers /\ ~Running(t) /\ calls > 0
    /\ calls' = calls - 1
    /\ stack' = [stack EXCEPT ![t] = <<Frame("config_def", ty, "init", NoProps)>>]
    /\ result' = [result EXCEPT ![t] = None]
    /\ log' = [log EXCEPT ![t] = <<>>]
    /\ UNCHANGED <<arg, out, decls, mode, cell, runs, builds>>

\* from_props begins with `let def = Self::config_def()?;`
CallFromProps(t, ty, props) ==
    /\ t \in Callers /\ ~Running(t) /\ calls > 0
    /\ calls' = calls - 1
    /\ stack' = [stack EXCEPT ![t] = <<Frame("from_props", ty, "def", props),
                                       Frame("config_def", ty, "init", NoProps)>>]
    /\ result' = [result EXCEPT ![t] = None]
    /\ log' = [log EXCEPT ![t] = <<>>]
    /\ UNCHANGED <<arg, out, decls, mode, cell, runs, builds>>

\* ConfigDef::try_from(keys) on the descriptors of a struct's own fields
KeysOf(fields) == [i \in 1..Len(fields) |-> fields[i].key]

CallTryFrom(t, ty) ==
    /\ t \in Callers /\ ~Running(t) /\ calls > 0
    /\ \A i \in 1..Len(decls[ty]) : ~decls[ty][i].merge
    /\ calls' = calls - 1
    /\ result' = [result EXCEPT ![t] =
                     Some([fn |-> "try_from", ty |-> ty, props |-> NoProps,
                           res |-> TryFrom(KeysOf(decls[ty]))])]
    /\ log' = [log EXCEPT ![t] = <<>>]
    /\ UNCHANGED <<arg, out, decls, mode, cell, stack, runs, builds>>

(***************************************************************************)
(* config_def: CONFIG_DEF.get_or_try_init(closure).                        *)
(***************************************************************************)
\* a cell that keeps an empty registry once the closure has failed
CellAfterInitKeepsEmpty(c, r, gen) ==
    IF r.ok THEN [state |-> "COMPLETE", value |-> Some(r.val), gen |-> gen]
    ELSE [state |-> "COMPLETE", value |-> Some(Build(<<>>)), gen |-> gen]

\* what the cell holds after the closure returned r to the thread that ran it
CellAfterInit(c, r, gen) ==
    IF r.ok THEN [state |-> "COMPLETE", value |-> Some(r.val), gen |-> gen]
    ELSE [c EXCEPT !.state = "INCOMPLETE"]

\* a cell that does not make callers wait for a running initialization
MayInitializeUnguarded(c) == c.state # "COMPLETE"

\* whether get_or_try_init may start the closure in a cell in this state
MayInitialize(c) == c.state = "INCOMPLETE"

GetOrTryInit(t) ==
    /\ Running(t) /\ Top(t).fn = "config_def" /\ Top(t).pc = "init"
    /\ \/ /\ cell[Top(t).ty].state = "COMPLETE"
          /\ Return(t, Ok(Ref(Top(t).ty)))
          /\ UNCHANGED <<cell, runs>>
       \/ /\ cell[Top(t).ty].state # "COMPLETE"
          /\ MayInitialize(cell[Top(t).ty])
          /\ cell' = [cell EXCEPT ![Top(t).ty].state = "RUNNING"]
          /\ runs' = [runs EXCEPT ![Top(t).ty] = @ + 1]
          /\ stack' = SetTop(t, [Top(t) EXCEPT !.pc = "closure",
                                               !.run = runs[Top(t).ty] + 1])
          /\ UNCHANGED result
    /\ UNCHANGED <<arg, out, decls, mode, calls, builds, log>>

\* the fields taken last to first
ItemReversed(t) == decls[Top(t).ty][Len(decls[Top(t).ty]) + 1 - Top(t).idx]

\* the field declaration the top frame is at, in declaration order
Item(t) == decls[Top(t).ty][Top(t).idx]
InClosure(t) == Running(t) /\ Top(t).fn = "config_def" /\ Top(t).pc = "closure"

\* the closure failed with e: the cell is left empty and e goes to the caller
ClosureFail(t, e) ==
    /\ cell' = [cell EXCEPT ![Top(t).ty] = CellAfterInit(@, Err(e), Top(t).run)]
    /\ Return(t, Err(e))

\* builder.define(ConfigKey { .. })?
ClosureDefine(t) ==
    /\ InClosure(t) /\ Top(t).idx <= Len(decls[Top(t).ty]) /\ ~Item(t).merge
    /\ LET r == Define(Top(t).builder, Item(t).key)
       IN  IF r.ok
           THEN /\ stack' = SetTop(t, [Top(t) EXCEPT !.builder = r.val, !.idx = @ + 1])
                /\ UNCHANGED <<cell, result>>
           ELSE ClosureFail(t, r.err)
    /\ UNCHANGED <<arg, out, decls, mode, calls, runs, builds, log>>

\* for key in <Sub as FromConfigDef>::config_def()?.config_keys().values() ...
ClosureMergeCall(t) ==
    /\ InClosure(t) /\ Top(t).idx <= Len(decls[Top(t).ty]) /\ Item(t).merge
    /\ stack' = [stack EXCEPT ![t] =
                    Push(SetTop(t, [Top(t) EXCEPT !.pc = "merge"])[t],
                         Frame("config_def", Item(t).sub, "init", NoProps))]
    /\ UNCHANGED <<arg, out, decls, mode, cell, result, calls, runs, builds, log>>

\* the keys a #[merge] field adds to the builder: a clone of each key of the
\* sub-schema, which leaves the sub-schema's registry as it was
MergedKeys(def) == config_keys(def)

\* the keys moved out of the sub-schema's registry instead of cloned
SourceAfterMove(def) == Build(<<>>)

\* the first key taken out of the sub-schema's registry by the merge
SourceAfterTake(def) ==
    Build(IF def.config_keys = <<>> THEN <<>> ELSE Tail(def.config_keys))

SourceAfterClone(def) == def

\* ... { builder.define(key.clone())?; }
ClosureMergeDefine(t) ==
    /\ Running(t) /\ Top(t).fn = "config_def" /\ Top(t).pc = "merge"
    /\ IsSome(Top(t).ret)
    /\ LET sub == Unwrap(Top(t).ret)
           r   == IF sub.ok
                  THEN DefineAll(Top(t).builder, MergedKeys(Deref(sub.val)))
                  ELSE sub
           read == IF sub.ok
                   THEN [cell EXCEPT ![sub.val.ty].value =
                            Some(SourceAfterClone(Deref(sub.val)))]
                   ELSE cell
       IN  IF r.ok
           THEN /\ stack' = SetTop(t, [Top(t) EXCEPT !.builder = r.val, !.idx = @ + 1,
                                                     !.pc = "closure", !.ret = None])
                /\ cell' = read
                /\ UNCHANGED result
           ELSE /\ cell' = [read EXCEPT ![Top(t).ty] =
                               CellAfterInit(@, Err(r.err), Top(t).run)]
                /\ Return(t, Err(r.err))
    /\ UNCHANGED <<arg, out, decls, mode, calls, runs, builds, log>>

\* Ok(builder.build()): the cell is filled and a reference to it returned
ClosureBuild(t) ==
    /\ InClosure(t) /\ Top(t).idx > Len(decls[Top(t).ty])
    /\ cell' = [cell EXCEPT ![Top(t).ty] =
                   CellAfterInit(@, Ok(Build(Top(t).builder)), Top(t).run)]
    /\ builds' = [builds EXCEPT ![Top(t).ty] = @ + 1]
    /\ Return(t, Ok([ty |-> Top(t).ty, gen |-> Top(t).run]))
    /\ UNCHANGED <<arg, out, decls, mode, calls, runs, log>>

(***************************************************************************)
(* from_props: the fields of Ok(Self { .. }) in declaration order.         *)
(***************************************************************************)
InFields(t) == Running(t) /\ Top(t).fn = "from_props" /\ Top(t).pc = "fields"

\* let def = Self::config_def()?;
FromPropsDef(t) ==
    /\ Running(t) /\ Top(t).fn = "from_props" /\ Top(t).pc = "def"
    /\ IsSome(Top(t).ret)
    /\ LET r == Unwrap(Top(t).ret)
       IN  IF r.ok
           THEN /\ stack' = SetTop(t, [Top(t) EXCEPT !.def = Some(r.val),
                                                     !.pc = "fields", !.ret = None])
                /\ UNCHANGED result
           ELSE Return(t, r)
    /\ UNCHANGED <<arg, out, decls, mode, cell, calls, runs, builds, log>>

\* the initializer of one field that is not a #[merge] field
FieldValue(def, props, item) ==
    IF item.optional THEN OptionField(def, props, item.ty, item.key.name)
    ELSE RequiredField(def, props, item.ty, item.key.name)

FromPropsField(t) ==
    /\ InFields(t) /\ Top(t).idx <= Len(decls[Top(t).ty]) /\ ~Item(t).merge
    /\ LET r == FieldValue(Deref(Unwrap(Top(t).def)), Top(t).props, Item(t))
       IN  IF r.ok
           THEN /\ stack' = SetTop(t, [Top(t) EXCEPT
                                 !.vals = Append(@, [field |-> Item(t).field,
                                                     val |-> r.val]),
                                 !.idx = @ + 1])
                /\ UNCHANGED result
           ELSE Return(t, r)
    /\ log' = [log EXCEPT ![t] = Append(@, Item(t).key.name)]
    /\ UNCHANGED <<arg, out, decls, mode, cell, calls, runs, builds>>

\* field: <Sub as FromConfigDef>::from_props(props)?
\* the sub-struct resolved against an empty map of its own
PropsForSubFresh(props) == NoProps

\* from_props(props): the sub-struct gets the caller's own map
PropsForSub(props) == props

FromPropsMergeCall(t) ==
    /\ InFields(t) /\ Top(t).idx <= Len(decls[Top(t).ty]) /\ Item(t).merge
    /\ stack' = [stack EXCEPT ![t] =
                    Push(Push(SetTop(t, [Top(t) EXCEPT !.pc = "sub"])[t],
                              Frame("from_props", Item(t).sub, "def",
                                    PropsForSub(Top(t).props))),
                         Frame("config_def", Item(t).sub, "init", NoProps))]
    /\ UNCHANGED <<arg, out, decls, mode, cell, result, calls, runs, builds, log>>

FromPropsMergeReturn(t) ==
    /\ Running(t) /\ Top(t).fn = "from_props" /\ Top(t).pc = "sub"
    /\ IsSome(Top(t).ret)
    /\ LET r == Unwrap(Top(t).ret)
       IN  IF r.ok
           THEN /\ stack' = SetTop(t, [Top(t) EXCEPT
                                 !.vals = Append(@, [field |-> Item(t).field,
                                                     val |-> r.val]),
                                 !.idx = @ + 1, !.pc = "fields", !.ret = None])
                /\ UNCHANGED result
           ELSE Return(t, r)
    /\ UNCHANGED <<arg, out, decls, mode, cell, calls, runs, builds, log>>

\* every field has a value: Ok(Self { .. })
FromPropsDone(t) ==
    /\ InFields(t) /\ Top(t).idx > Len(decls[Top(t).ty])
    /\ Return(t, Ok(Top(t).vals))
    /\ UNCHANGED <<arg, out, decls, mode, cell, calls, runs, builds, log>>

(***************************************************************************)
(* Stand-alone library calls.                                              *)
(***************************************************************************)
program == <<decls, mode, cell, stack, result, calls, runs, builds, log>>

\* validator.validate(name, value)
CallValidate ==
    /\ arg.fn = "validate" /\ ~IsSome(out.validated)
    /\ out' = [out EXCEPT !.validated =
                   Some(Validate(Unwrap(arg.validator), arg.name, arg.value))]
    /\ UNCHANGED <<arg, program>>

\* <T as ConfigValue>::parse(name, value)
CallParse ==
    /\ arg.fn = "parse" /\ ~IsSome(out.parsed)
    /\ out' = [out EXCEPT !.parsed = Some(Parse(arg.ty, arg.name, arg.value))]
    /\ UNCHANGED <<arg, program>>

\* to_config_string of the parsed value
CallToConfigString ==
    /\ IsSome(out.parsed) /\ Unwrap(out.parsed).ok /\ ~IsSome(out.string)
    /\ out' = [out EXCEPT !.string =
                   Some(ToConfigString(arg.ty, Unwrap(out.parsed).val))]
    /\ UNCHANGED <<arg, program>>

\* parse of the string to_config_string gave
CallParseAgain ==
    /\ IsSome(out.string) /\ ~IsSome(out.reparsed)
    /\ out' = [out EXCEPT !.reparsed =
                   Some(Parse(arg.ty, arg.name, Unwrap(out.string)))]
    /\ UNCHANGED <<arg, program>>

\* format!("{}", password) / format!("{:?}", password)
CallDisplay ==
    /\ arg.ty = "Password"
    /\ IsSome(out.parsed) /\ Unwrap(out.parsed).ok /\ ~IsSome(out.shown)
    /\ out' = [out EXCEPT !.shown = Some(PasswordDisplay(Unwrap(out.parsed).val))]
    /\ UNCHANGED <<arg, program>>

Next ==
    \E t \in Threads :
        \/ \E ty \in Structs : CallTryFrom(t, ty)
        \/ \E ty \in Structs : CallConfigDef(t, ty)
        \/ \E ty \in Structs, props \in PropsOf : CallFromProps(t, ty, props)
        \/ GetOrTryInit(t)
        \/ ClosureDefine(t)
        \/ ClosureMergeCall(t)
        \/ ClosureMergeDefine(t)
        \/ ClosureBuild(t)
        \/ FromPropsDef(t)
        \/ FromPropsField(t)
        \/ FromPropsMergeCall(t)
        \/ FromPropsMergeReturn(t)
        \/ FromPropsDone(t)

Spec == Init /\ [][Next]_vars

SpecConc == InitConc /\ [][Next]_vars

SpecTyped == InitTyped /\ [][Next]_vars

NextLib ==
    \/ CallValidate
    \/ CallParse
    \/ CallToConfigString
    \/ CallParseAgain
    \/ CallDisplay

SpecLib == InitLib /\ [][NextLib]_vars

(***************************************************************************)
(* What the properties below speak of.                                     *)
(***************************************************************************)
Completed(t, fn, ty) ==
    /\ IsSome(result[t])
    /\ Unwrap(result[t]).fn = fn
    /\ Unwrap(result[t]).ty = ty
Res(t) == Unwrap(result[t]).res
Props(t) == Unwrap(result[t]).props

\* the structs whose fields are all plain (no #[merge])
LeafStructs == {ty \in Structs : \A i \in 1..Len(decls[ty]) : ~decls[ty][i].merge}
FieldIdx(ty) == 1..Len(decls[ty])
KeyAt(ty, i) == decls[ty][i].key
NameAt(ty, i) == decls[ty][i].key.name
Names(ty) == [i \in FieldIdx(ty) |-> NameAt(ty, i)]
HasDuplicate(names) == \E i, j \in 1..Len(names) : i < j /\ names[i] = names[j]
IsDefinedTwice(e) ==
    /\ e.kind = "ValidationFailed"
    /\ e.message.text = "Configuration key is defined twice."

\* the registry a completed try_from or config_def call returned
Registry(t) ==
    IF Unwrap(result[t]).fn = "try_from" THEN Res(t).val ELSE Deref(Res(t).val)

\* the raw string the raw map or else the default supplies for field i
Supplied(t, ty, i) ==
    IF NameAt(ty, i) \in DOMAIN Props(t) THEN Some(Props(t)[NameAt(ty, i)])
    ELSE KeyAt(ty, i).default_value

\* from_props evaluated field i; it failed there iff it evaluated nothing after it
Reached(t, i) == Len(log[t]) >= i
FailedAt(t, i) == ~Res(t).ok /\ Len(log[t]) = i

(***************************************************************************)
(* C1: building a registry from a descriptor list in which two descriptors *)
(* share a name fails with ValidationFailed "defined twice" naming that    *)
(* key, whatever the other fields are; a list of pairwise distinct names   *)
(* builds and the registry holds exactly those names.                      *)
(***************************************************************************)
C1_DuplicateNameRejected ==
    \A t \in Threads : \A ty \in LeafStructs : \A fn \in {"try_from", "config_def"} :
        Completed(t, fn, ty) =>
            IF HasDuplicate(Names(ty))
            THEN /\ ~Res(t).ok
                 /\ IsDefinedTwice(Res(t).err)
                 /\ \E i, j \in FieldIdx(ty) :
                       i < j /\ NameAt(ty, i) = Res(t).err.name
                             /\ NameAt(ty, j) = Res(t).err.name
            ELSE /\ Res(t).ok
                 /\ ToSet(Names(ty)) =
                       {k.name : k \in ToSet(config_keys(Registry(t)))}
                 /\ Len(config_keys(Registry(t))) = Len(Names(ty))

\* try_from rejected two descriptors that share only their name
C1_Witness ==
    \E t \in Threads : \E ty \in LeafStructs :
        /\ Completed(t, "try_from", ty)
        /\ IsDefinedTwice(Res(t).err)
        /\ \E i, j \in FieldIdx(ty) :
              /\ i < j /\ NameAt(ty, i) = NameAt(ty, j)
              /\ KeyAt(ty, i).default_value # KeyAt(ty, j).default_value
              /\ KeyAt(ty, i).validator # KeyAt(ty, j).validator
              /\ decls[ty][i].ty # decls[ty][j].ty

(***************************************************************************)
(* C2: a required field takes its raw string from the raw map if the key   *)
(* is present, else from the descriptor's default, else resolution fails   *)
(* with MissingName(key); on success the field is the codec's parse of the *)
(* chosen string.                                                          *)
(***************************************************************************)
C2_RequiredFieldPrecedence ==
    \A t \in Threads : \A ty \in LeafStructs :
        Completed(t, "from_props", ty) =>
            \A i \in FieldIdx(ty) :
                ~decls[ty][i].optional =>
                    LET k      == NameAt(ty, i)
                        chosen == IF k \in DOMAIN Props(t) THEN Some(Props(t)[k])
                                  ELSE KeyAt(ty, i).default_value
                    IN  /\ Res(t).ok =>
                              /\ IsSome(chosen)
                              /\ Parse(decls[ty][i].ty, k, Unwrap(chosen)).ok
                              /\ Res(t).val[i].val =
                                    Parse(decls[ty][i].ty, k, Unwrap(chosen)).val
                        /\ (Reached(t, i) /\ ~IsSome(chosen)) =>
                              Res(t) = Err(MissingName(k))

\* a supplied value overrode a default that parses to something else
C2_Witness ==
    \E t \in Threads : \E ty \in LeafStructs : \E i \in FieldIdx(ty) :
        /\ Completed(t, "from_props", ty) /\ Res(t).ok
        /\ ~decls[ty][i].optional
        /\ NameAt(ty, i) \in DOMAIN Props(t)
        /\ KeyAt(ty, i).default_value = Some(S5)
        /\ Parse("i32", NameAt(ty, i), S5) = Ok(5)
        /\ Res(t).val[i].val = 1

(***************************************************************************)
(* C3: an optional field with no default whose key is not in the raw map   *)
(* resolves to None and resolution goes on, the validator is not run; when *)
(* the raw map or a default supplies a value, the field is validated and   *)
(* parsed as a required field would be.                                    *)
(***************************************************************************)
C3_OptionalField ==
    \A t \in Threads : \A ty \in LeafStructs :
        Completed(t, "from_props", ty) =>
            \A i \in FieldIdx(ty) :
                (decls[ty][i].optional /\ Reached(t, i)) =>
                    LET k        == NameAt(ty, i)
                        required == RequiredField(Build(KeysOf(decls[ty])), Props(t),
                                                  decls[ty][i].ty, k)
                    IN  IF ~IsSome(Supplied(t, ty, i))
                        THEN /\ ~FailedAt(t, i)
                             /\ Res(t).ok => Res(t).val[i].val = None
                        ELSE /\ FailedAt(t, i) <=> ~required.ok
                             /\ FailedAt(t, i) => Res(t) = required
                             /\ Res(t).ok => Res(t).val[i].val = Some(required.val)

\* absent and None although the validator rejects the empty string
C3_Witness ==
    \E t \in Threads : \E ty \in LeafStructs : \E i \in FieldIdx(ty) :
        /\ Completed(t, "from_props", ty) /\ Res(t).ok
        /\ decls[ty][i].optional
        /\ ~IsSome(Supplied(t, ty, i))
        /\ IsSome(KeyAt(ty, i).validator)
        /\ ~Validate(Unwrap(KeyAt(ty, i).validator), NameAt(ty, i), <<>>).ok
        /\ Res(t).val[i].val = None

(***************************************************************************)
(* C4: when the raw map supplies a value that fails the field's validator, *)
(* resolution returns the validator's error; it never falls back to the    *)
(* default, even a valid one.                                              *)
(***************************************************************************)
C4_NoFallbackToDefault ==
    \A t \in Threads : \A ty \in LeafStructs :
        Completed(t, "from_props", ty) =>
            \A i \in FieldIdx(ty) :
                LET k == NameAt(ty, i)
                    v == KeyAt(ty, i).validator
                IN  ( /\ Reached(t, i)
                      /\ k \in DOMAIN Props(t)
                      /\ IsSome(v)
                      /\ ~Validate(Unwrap(v), k, Props(t)[k]).ok )
                    => Res(t) = Validate(Unwrap(v), k, Props(t)[k])

\* the supplied value is out of range and the default is in range
C4_Witness ==
    \E t \in Threads : \E ty \in LeafStructs : \E i \in FieldIdx(ty) :
        LET k == NameAt(ty, i)
            v == KeyAt(ty, i).validator
        IN  /\ Completed(t, "from_props", ty)
            /\ Reached(t, i)
            /\ k \in DOMAIN Props(t)
            /\ IsSome(v)
            /\ ~Validate(Unwrap(v), k, Props(t)[k]).ok
            /\ IsSome(KeyAt(ty, i).default_value)
            /\ Validate(Unwrap(v), k, Unwrap(KeyAt(ty, i).default_value)).ok
            /\ Res(t).err.kind = "ValidationFailed"

(***************************************************************************)
(* C5: when several fields would fail, resolution returns exactly the      *)
(* error of the first failing field in declaration order, evaluates no     *)
(* field after it and returns no typed value.                              *)
(***************************************************************************)
FailingFields(t, ty) ==
    {i \in FieldIdx(ty) :
        ~FieldValue(Build(KeysOf(decls[ty])), Props(t), decls[ty][i]).ok}
FirstOf(S) == CHOOSE i \in S : \A j \in S : i <= j

C5_FirstFailingField ==
    \A t \in Threads : \A ty \in LeafStructs :
        (Completed(t, "from_props", ty) /\ ~HasDuplicate(Names(ty))) =>
            IF FailingFields(t, ty) # {}
            THEN LET f == FirstOf(FailingFields(t, ty))
                 IN  /\ ~Res(t).ok
                     /\ Res(t).err =
                           FieldValue(Build(KeysOf(decls[ty])), Props(t), decls[ty][f]).err
                     /\ Res(t).val = <<>>
                     /\ log[t] = SubSeq(Names(ty), 1, f)
            ELSE /\ Res(t).ok
                 /\ Len(Res(t).val) = Len(decls[ty])
                 /\ log[t] = Names(ty)

\* two fields fail with different errors and the first one's is returned
C5_Witness ==
    \E t \in Threads : \E ty \in LeafStructs :
        /\ Completed(t, "from_props", ty) /\ ~HasDuplicate(Names(ty))
        /\ Cardinality(FailingFields(t, ty)) >= 2
        /\ \E i, j \in FailingFields(t, ty) :
              /\ i < j
              /\ FieldValue(Build(KeysOf(decls[ty])), Props(t), decls[ty][i]).err.kind
                    # FieldValue(Build(KeysOf(decls[ty])), Props(t), decls[ty][j]).err.kind
        /\ Len(log[t]) = 1

(***************************************************************************)
(* C6: a declared default that violates its own validator makes the        *)
(* schema construction fail: config_def() and every from_props call, also  *)
(* one whose raw map supplies a valid value for the key, return that       *)
(* validation error.                                                       *)
(***************************************************************************)
\* what the validator of field i of ty says about the field's own default
DefaultCheck(ty, i) ==
    Validate(Unwrap(KeyAt(ty, i).validator), NameAt(ty, i),
             Unwrap(KeyAt(ty, i).default_value))

InvalidDefaults(ty) ==
    {i \in FieldIdx(ty) :
        /\ IsSome(KeyAt(ty, i).default_value)
        /\ IsSome(KeyAt(ty, i).validator)
        /\ ~DefaultCheck(ty, i).ok}

C6_InvalidDefaultFailsConstruction ==
    \A t \in Threads : \A ty \in LeafStructs : \A fn \in {"config_def", "from_props"} :
        (Completed(t, fn, ty) /\ ~HasDuplicate(Names(ty)) /\ InvalidDefaults(ty) # {}) =>
            /\ ~Res(t).ok
            /\ \E i \in InvalidDefaults(ty) : Res(t).err = DefaultCheck(ty, i).err

(***************************************************************************)
(* C7: no successful resolution returns an unvalidated default: a value    *)
(* taken from the default of a descriptor with a validator passes that     *)
(* validator, and when the key is omitted and the default violates the     *)
(* validator, resolution fails with the validator's error naming the key:  *)
(* ValidationFailed, or InvalidValue when a Range validator cannot read    *)
(* the default as a number.                                                *)
(***************************************************************************)
\* the fields of ty whose key the raw map of t omits and whose default has a validator
DefaultedFields(t, ty) ==
    {i \in FieldIdx(ty) :
        /\ NameAt(ty, i) \notin DOMAIN Props(t)
        /\ IsSome(KeyAt(ty, i).default_value)
        /\ IsSome(KeyAt(ty, i).validator)}

C7_DefaultIsValidated ==
    \A t \in Threads : \A ty \in LeafStructs :
        Completed(t, "from_props", ty) =>
            \A i \in DefaultedFields(t, ty) :
                /\ Res(t).ok => DefaultCheck(ty, i).ok
                /\ (Reached(t, i) /\ ~DefaultCheck(ty, i).ok) =>
                      /\ ~Res(t).ok
                      /\ Res(t).err = DefaultCheck(ty, i).err
                      /\ Res(t).err.name = NameAt(ty, i)
                      /\ Res(t).err.kind \in {"ValidationFailed", "InvalidValue"}
                      /\ Res(t).err.kind = "InvalidValue" =>
                            /\ Unwrap(KeyAt(ty, i).validator).kind = "Range"
                            /\ ~FromStrF64(Trim(Unwrap(KeyAt(ty, i).default_value))).ok

\* the key is omitted and the default is below its range
C7_Witness ==
    \E t \in Threads : \E ty \in LeafStructs :
        /\ Completed(t, "from_props", ty)
        /\ \E i \in DefaultedFields(t, ty) :
              /\ Reached(t, i)
              /\ Res(t).err.kind = "ValidationFailed"
              /\ Res(t).err.name = NameAt(ty, i)
              /\ Res(t).err.message.text = "must be at least"

\* C7 as stated: an omitted key whose default violates the validator always
\* yields ValidationFailed naming the key
C7_OmittedKeyValidationFailed ==
    \A t \in Threads : \A ty \in LeafStructs :
        Completed(t, "from_props", ty) =>
            \A i \in DefaultedFields(t, ty) :
                /\ Res(t).ok => DefaultCheck(ty, i).ok
                /\ (Reached(t, i) /\ ~DefaultCheck(ty, i).ok) =>
                      /\ ~Res(t).ok
                      /\ Res(t).err.kind = "ValidationFailed"
                      /\ Res(t).err.name = NameAt(ty, i)

(***************************************************************************)
(* C8: under any interleaving of config_def() and from_props() calls the   *)
(* schema construction of a struct completes successfully at most once,    *)
(* and every call that obtains a registry obtains that one registry.       *)
(***************************************************************************)
\* the references to ty's registry that thread t holds
HeldRefs(t, ty) ==
    {Unwrap(stack[t][n].def) :
        n \in {m \in 1..Len(stack[t]) : stack[t][m].ty = ty /\ IsSome(stack[t][m].def)}}
    \cup {Res(t).val : x \in {y \in result[t] : y.fn = "config_def" /\ y.ty = ty /\ y.res.ok}}

C8_BuiltAtMostOnce ==
    \A ty \in Structs :
        /\ builds[ty] <= 1
        /\ \A t \in Threads : \A r \in HeldRefs(t, ty) :
              /\ cell[ty].state = "COMPLETE"
              /\ r = Ref(ty)

\* two threads raced for the empty cell and both hold the registry
C8_Witness ==
    \E ty \in Structs :
        /\ runs[ty] = 1 /\ builds[ty] = 1
        /\ \A t \in Threads : HeldRefs(t, ty) # {}

(***************************************************************************)
(* C9: the construction closure of a struct executes exactly once, whether *)
(* it succeeds or fails: after a failed construction, concurrent and later *)
(* callers get the error without the construction being run again.         *)
(***************************************************************************)
C9_ClosureRunsOnce ==
    \A ty \in Structs : runs[ty] <= 1

(***************************************************************************)
(* C10: once a registry has been constructed, its keys, their order and    *)
(* every descriptor's fields stay the same in every later state, whatever  *)
(* find_key, config_keys, config_def, from_props or merge do.              *)
(***************************************************************************)
C10_RegistryImmutable ==
    [][\A ty \in Structs : cell[ty].state = "COMPLETE" => cell'[ty] = cell[ty]]_vars

\* TestConfig1's registry was built, merged into the composite and read by from_props
C10_Witness ==
    /\ cell["TestConfig1"].state = "COMPLETE"
    /\ cell["MergeTestConfig"].state = "COMPLETE"
    /\ Len(config_keys(Unwrap(cell["MergeTestConfig"].value))) = 2
    /\ \E t \in Threads : Completed(t, "from_props", "MergeTestConfig") /\ Res(t).ok

(***************************************************************************)
(* C11: merging sub-schemas in which a key name occurs in two different    *)
(* sub-schemas fails with the "defined twice" error naming that key; the   *)
(* composite never keeps one of the two descriptors.  With disjoint names  *)
(* the composite holds every key of every sub-schema, in order.            *)
(***************************************************************************)
Composites == Structs \ LeafStructs
SubStructs(ty) == [i \in FieldIdx(ty) |-> decls[ty][i].sub]
\* the key names that occur in two different sub-schemas of ty
SharedNames(ty) ==
    {n \in KeyNames :
        \E i, j \in FieldIdx(ty) :
            /\ i < j
            /\ n \in ToSet(Names(SubStructs(ty)[i]))
            /\ n \in ToSet(Names(SubStructs(ty)[j]))}
SubSchemasBuild(ty) == \A i \in FieldIdx(ty) : ~HasDuplicate(Names(SubStructs(ty)[i]))
RECURSIVE Concat(_)
Concat(seqs) == IF seqs = <<>> THEN <<>> ELSE Head(seqs) \o Concat(Tail(seqs))
MergedNames(ty) == Concat([i \in FieldIdx(ty) |-> Names(SubStructs(ty)[i])])

C11_MergeRejectsSharedName ==
    \A t \in Threads : \A ty \in Composites : \A fn \in {"config_def", "from_props"} :
        (Completed(t, fn, ty) /\ SubSchemasBuild(ty)) =>
            IF SharedNames(ty) # {}
            THEN /\ ~Res(t).ok
                 /\ IsDefinedTwice(Res(t).err)
                 /\ Res(t).err.name \in SharedNames(ty)
                 /\ cell[ty].state # "COMPLETE"
            ELSE /\ cell[ty].state = "COMPLETE"
                 /\ [i \in 1..Len(config_keys(Unwrap(cell[ty].value))) |->
                        config_keys(Unwrap(cell[ty].value))[i].name] = MergedNames(ty)

\* TestConfig1 declares "a" and "b", TestConfig2 declares "b": the merge failed on "b"
C11_Witness ==
    \E t \in Threads : \E ty \in Composites :
        /\ Completed(t, "config_def", ty)
        /\ Names("TestConfig1") = <<"a", "b">>
        /\ SharedNames(ty) = {"b"}
        /\ IsDefinedTwice(Res(t).err)
        /\ Res(t).err.name = "b"
        /\ cell["TestConfig1"].state = "COMPLETE"
        /\ cell["TestConfig2"].state = "COMPLETE"

(***************************************************************************)
(* C12: for a composite of sub-schemas with disjoint key names, resolving  *)
(* the composite succeeds iff resolving every sub-schema on its own        *)
(* against the same raw map succeeds, each sub-result then equals the      *)
(* independent one, and a sub-schema's fields read only the raw values     *)
(* under its own key names.                                                *)
(***************************************************************************)
\* from_props of a leaf struct on its own, as one function of the raw map
RECURSIVE ResolveFields(_, _, _, _)
ResolveFields(def, props, items, vals) ==
    IF items = <<>> THEN Ok(vals)
    ELSE LET r == FieldValue(def, props, Head(items))
         IN  IF r.ok
             THEN ResolveFields(def, props, Tail(items),
                                Append(vals, [field |-> Head(items).field, val |-> r.val]))
             ELSE r
Resolve(ty, props) ==
    LET def == TryFrom(KeysOf(decls[ty]))
    IN  IF def.ok THEN ResolveFields(def.val, props, decls[ty], <<>>) ELSE def
\* the raw map cut down to the given key names
Restrict(props, names) == [k \in DOMAIN props \cap names |-> props[k]]
OwnProps(t, sub) == Restrict(Props(t), ToSet(Names(sub)))
FailingSubs(t, ty) == {i \in FieldIdx(ty) : ~Resolve(SubStructs(ty)[i], OwnProps(t, SubStructs(ty)[i])).ok}

C12_MergeResolvesIndependently ==
    \A t \in Threads : \A ty \in Composites :
        (Completed(t, "from_props", ty) /\ SubSchemasBuild(ty) /\ SharedNames(ty) = {}) =>
            /\ Res(t).ok <=> FailingSubs(t, ty) = {}
            /\ Res(t).ok =>
                  /\ Len(Res(t).val) = Len(decls[ty])
                  /\ \A i \in FieldIdx(ty) :
                        /\ Res(t).val[i].field = decls[ty][i].field
                        /\ Res(t).val[i].val =
                              Resolve(SubStructs(ty)[i], OwnProps(t, SubStructs(ty)[i])).val
                  /\ log[t] = MergedNames(ty)
            /\ ~Res(t).ok =>
                  Res(t).err = Resolve(SubStructs(ty)[FirstOf(FailingSubs(t, ty))],
                                       OwnProps(t, SubStructs(ty)[FirstOf(FailingSubs(t, ty))])).err

\* both sub-schemas resolved from one raw map that holds a value for each
C12_Witness ==
    \E t \in Threads : \E ty \in Composites :
        /\ Completed(t, "from_props", ty) /\ Res(t).ok
        /\ SharedNames(ty) = {}
        /\ DOMAIN Props(t) = {"a", "b"}
        /\ Props(t)["a"] # Props(t)["b"]
        /\ log[t] = <<"a", "b">>
        /\ \A i \in FieldIdx(ty) : Len(Res(t).val[i].val) = 1

(***************************************************************************)
(* Claims about the validators and the codec are stated over the           *)
(* completed stand-alone calls of SpecLib.                                 *)
(***************************************************************************)
Validated(kind) ==
    arg.fn = "validate" /\ Unwrap(arg.validator).kind = kind /\ IsSome(out.validated)
TheValidator == Unwrap(arg.validator)
ValidateResult == Unwrap(out.validated)
FailsWith(r, kind, name) == ~r.ok /\ r.err.kind = kind /\ r.err.name = name

\* the order of the extended reals on a parsed number n and an integral bound
\* b; nothing is ordered with NaN
IsNaN(n) == n = <<0, 0>>
BoundLe(b, n) == IF n[2] = 0 THEN n[1] = 1 ELSE b * n[2] <= n[1]
BoundGe(b, n) == IF n[2] = 0 THEN n[1] = -1 ELSE b * n[2] >= n[1]
AboveMin(v, n) == ~IsNaN(n) /\ (IsSome(v.min) => BoundLe(Unwrap(v.min), n))
BelowMax(v, n) == ~IsNaN(n) /\ (IsSome(v.max) => BoundGe(Unwrap(v.max), n))

(***************************************************************************)
(* C13: Range.validate with bounds [min, max] returns Ok exactly for the   *)
(* numeric raw strings whose value n has min <= n <= max, both bounds      *)
(* included; n < min fails with ValidationFailed "must be at least",       *)
(* n > max with ValidationFailed "must be no more than", and a trimmed     *)
(* string that is not numeric fails with InvalidValue.                     *)
(***************************************************************************)
C13_RangeInclusive ==
    Validated("Range") =>
        LET n == FromStrF64(Trim(arg.value))
            v == TheValidator
            r == ValidateResult
        IN  IF ~n.ok THEN FailsWith(r, "InvalidValue", arg.name)
            ELSE /\ r.ok <=> (AboveMin(v, n.val) /\ BelowMax(v, n.val))
                 /\ (~IsNaN(n.val) /\ ~AboveMin(v, n.val)) =>
                        /\ FailsWith(r, "ValidationFailed", arg.name)
                        /\ r.err.message.text = "must be at least"
                        /\ r.err.message.bound = Unwrap(v.min)
                 /\ (AboveMin(v, n.val) /\ ~BelowMax(v, n.val)) =>
                        /\ FailsWith(r, "ValidationFailed", arg.name)
                        /\ r.err.message.text = "must be no more than"
                        /\ r.err.message.bound = Unwrap(v.max)

(***************************************************************************)
(* C14: the public factories of Range make a validator with a lower bound  *)
(* only, one with an upper bound only and one with no bound at all, and a  *)
(* validator accepts every numeric value on a side it leaves unbounded.    *)
(***************************************************************************)
C14_UnboundedRangesCreatable ==
    /\ \E v \in PublicRanges : IsSome(v.min) /\ v.max = None
    /\ \E v \in PublicRanges : v.min = None /\ IsSome(v.max)
    /\ \E v \in PublicRanges : v.min = None /\ v.max = None
    /\ Validated("Range") =>
          LET n == FromStrF64(Trim(arg.value))
              v == TheValidator
          IN  /\ (n.ok /\ v.max = None /\ AboveMin(v, n.val)) => ValidateResult.ok
              /\ (n.ok /\ v.min = None /\ BelowMax(v, n.val)) => ValidateResult.ok

(***************************************************************************)
(* C15: ValidString.validate returns Ok exactly when the input with its    *)
(* surrounding whitespace removed is, letter case included, one of the     *)
(* permitted literals; otherwise it fails with ValidationFailed naming the *)
(* key and listing the permitted set.                                      *)
(***************************************************************************)
C15_ValidStringExactMember ==
    Validated("ValidString") =>
        LET v == TheValidator
            r == ValidateResult
        IN  IF Trim(arg.value) \in ToSet(v.valid_strings)
            THEN r = Ok(<<>>)
            ELSE /\ FailsWith(r, "ValidationFailed", arg.name)
                 /\ r.err.message.list = v.valid_strings

\* a literal with blanks around it was accepted
C15_Witness ==
    /\ Validated("ValidString")
    /\ TheValidator.valid_strings # <<>>
    /\ arg.value = <<" ", "a", " ">> /\ ValidateResult.ok

(***************************************************************************)
(* C16: ValidList.validate applies its policies in the order empty list,   *)
(* duplicates, per-item validity, and reports the first one violated: an   *)
(* input with a duplicated item and an item that is empty or outside the   *)
(* allow-list fails with the duplicate-values message, and an empty list   *)
(* with empty disallowed fails with the must-not-be-empty message.  The    *)
(* items are the trimmed pieces between the separators; the empty list is  *)
(* the one a blank raw string gives.                                       *)
(***************************************************************************)
Items(value) ==
    IF Trim(value) = <<>> THEN <<>>
    ELSE [i \in 1..Len(Split(Trim(value), ",")) |-> Trim(Split(Trim(value), ",")[i])]
EmptyListMessages ==
    {"must not be empty. Valid values include: any non-empty value",
     "must not be empty. Valid values include: (empty not allowed)"}
ItemMessages == {"values must not be empty.", "Invalid value: String must be one of"}
DuplicateMessage == "values must not be duplicated."
BadItems(v, items) ==
    {i \in 1..Len(items) :
        items[i] = <<>> \/ (v.valid_strings # <<>> /\ items[i] \notin ToSet(v.valid_strings))}

SeparatorOnly(value) ==
    LET pieces == Split(value, ",")
    IN  Len(pieces) <= 2 /\ \A i \in 1..Len(pieces) : Trim(pieces[i]) = <<>>

C17_SeparatorOnlyIsEmptyList ==
    (Validated("ValidList") /\ SeparatorOnly(arg.value)) =>
        IF TheValidator.is_empty_allowed
        THEN ValidateResult = Ok(<<>>)
        ELSE /\ FailsWith(ValidateResult, "ValidationFailed", arg.name)
             /\ ValidateResult.err.message.text \in EmptyListMessages

Parsed == arg.fn = "parse" /\ IsSome(out.parsed)
ParseResult == Unwrap(out.parsed)

(***************************************************************************)
(* C18: for integers, booleans, strings, delimited lists and passwords,    *)
(* and every raw string s that parse accepts,                              *)
(* parse(k, to_config_string(parse(k, s))) equals parse(k, s), also for    *)
(* lists with empty-string items and strings with surrounding whitespace.  *)
(***************************************************************************)
C18_RoundTrip ==
    (Parsed /\ IsSome(out.reparsed)) =>
        /\ ParseResult.ok
        /\ Unwrap(out.reparsed) = ParseResult

\* a list with an empty item went through the round trip
C18_Witness ==
    /\ Parsed /\ IsSome(out.reparsed)
    /\ arg.ty = "Vec<String>"
    /\ Len(ParseResult.val) = 2
    /\ ParseResult.val[2] = <<>> /\ ParseResult.val[1] # <<>>
    /\ Unwrap(out.string) = ParseResult.val[1] \o <<",">>

(***************************************************************************)
(* C19: parse ignores surrounding whitespace for every type and letter     *)
(* case for numbers and booleans only: there parse(k, s) is                *)
(* parse(k, lowercase(trim(s))), so "TRUE" and "FalSE" are booleans, while *)
(* a string resolves to trim(s) with its letter case unchanged.            *)
(***************************************************************************)
Padded(s) == <<" ">> \o s \o <<" ">>

C19_ParseNormalises ==
    Parsed =>
        /\ ParseResult = Parse(arg.ty, arg.name, Trim(arg.value))
        /\ ParseResult = Parse(arg.ty, arg.name, Padded(arg.value))
        /\ arg.ty \in {"i32", "bool"} =>
              ParseResult = Parse(arg.ty, arg.name, ToLowercase(Trim(arg.value)))
        /\ (arg.ty = "bool" /\ arg.value = <<"T", "R", "U", "E">>) => ParseResult = Ok(TRUE)
        /\ (arg.ty = "bool" /\ arg.value = <<"F", "a", "l", "S", "E">>) =>
              ParseResult = Ok(FALSE)
        /\ arg.ty = "String" => ParseResult = Ok(Trim(arg.value))

\* "TRUE" was parsed as a boolean
C19_Witness ==
    /\ Parsed /\ arg.ty = "bool"
    /\ arg.value = <<"T", "R", "U", "E">>
    /\ ParseResult = Ok(TRUE)

(***************************************************************************)
(* C20: whatever the secret, a password is displayed as the fixed          *)
(* placeholder "[hidden]", while to_config_string returns the secret       *)
(* itself; the two never give the same string for the same password.       *)
(***************************************************************************)
Placeholder == <<"[", "h", "i", "d", "d", "e", "n", "]">>

C20_PasswordRedacted ==
    (Parsed /\ arg.ty = "Password") =>
        /\ IsSome(out.shown) => Unwrap(out.shown) = Placeholder
        /\ IsSome(out.string) => Unwrap(out.string) = Trim(arg.value)
        /\ (IsSome(out.shown) /\ IsSome(out.string)) => Unwrap(out.shown) # Unwrap(out.string)

\* the password "ab" both displayed and turned into its config string
C20_Witness ==
    /\ Parsed /\ arg.ty = "Password"
    /\ arg.value = <<"a", "b">>
    /\ IsSome(out.shown) /\ IsSome(out.string)
    /\ Unwrap(out.string) = <<"a", "b">>

(***************************************************************************)
(* C21: every failure of construction, validation, parsing or resolution   *)
(* is one of the three typed errors MissingName, InvalidValue and          *)
(* ValidationFailed and carries the name of the offending key: a           *)
(* construction failure names the key defined twice, and an error          *)
(* produced for a field looked up under name k has name k.                 *)
(***************************************************************************)
ErrorKinds == {"MissingName", "InvalidValue", "ValidationFailed"}
Last(seq) == seq[Len(seq)]
DuplicatedNames(ty) ==
    IF ty \in LeafStructs
    THEN {n \in KeyNames : \E i, j \in FieldIdx(ty) : i < j /\ NameAt(ty, i) = n /\ NameAt(ty, j) = n}
    ELSE SharedNames(ty)
        \cup UNION {{n \in KeyNames : \E i, j \in FieldIdx(sub) :
                        i < j /\ NameAt(sub, i) = n /\ NameAt(sub, j) = n}
                    : sub \in {SubStructs(ty)[i] : i \in FieldIdx(ty)}}

SeqSchema(ty) ==
    IF ty \in LeafStructs THEN TryFrom(KeysOf(decls[ty]))
    ELSE LET subs == [i \in FieldIdx(ty) |-> TryFrom(KeysOf(decls[SubStructs(ty)[i]]))]
             bad  == {i \in FieldIdx(ty) : ~subs[i].ok}
             all  == DefineAll(EmptyBuilder,
                               Concat([i \in FieldIdx(ty) |-> subs[i].val.config_keys]))
         IN  IF bad # {} THEN subs[FirstOf(bad)]
             ELSE IF all.ok THEN Ok(Build(all.val)) ELSE all

\* from_props(props) of ty by a lone caller
SeqFromProps(ty, props) ==
    IF ~SeqSchema(ty).ok THEN SeqSchema(ty)
    ELSE IF ty \in LeafStructs THEN Resolve(ty, props)
    ELSE LET subs == [i \in FieldIdx(ty) |-> Resolve(SubStructs(ty)[i], props)]
             bad  == {i \in FieldIdx(ty) : ~subs[i].ok}
         IN  IF bad # {} THEN subs[FirstOf(bad)]
             ELSE Ok([i \in FieldIdx(ty) |->
                         [field |-> decls[ty][i].field, val |-> subs[i].val]])

C22_ResolutionIsAFunction ==
    \A t \in Threads : \A ty \in Structs :
        Completed(t, "from_props", ty) =>
            /\ Res(t) = SeqFromProps(ty, Props(t))
            /\ Props(t) \in PropsOf

\* one thread has resolved the struct and another is in the middle of
\* resolving it against the same registry, which was built once
C22_Witness ==
    \E t, u \in Threads : \E ty \in Structs :
        /\ t # u
        /\ Completed(t, "from_props", ty) /\ Res(t).ok
        /\ Running(u) /\ stack[u][1].fn = "from_props" /\ stack[u][1].ty = ty
        /\ stack[u][1].pc = "fields"
        /\ stack[u][1].def = Some([ty |-> ty, gen |-> cell[ty].gen])
        /\ runs[ty] = 1 /\ calls = 0

(***************************************************************************)
(* C23: an integer field fails with InvalidValue naming the key on a       *)
(* decimal literal outside its width, on a fractional literal and on a     *)
(* string that is not a number, and never wraps, truncates or saturates;   *)
(* a boolean field takes only the words true and false, in any letter      *)
(* case, and refuses "0" and "1".                                          *)
(***************************************************************************)
\* an optional sign followed by one or more decimal digits
Unsigned(s) == IF s # <<>> /\ Head(s) \in {"+", "-"} THEN Tail(s) ELSE s
IsIntLiteral(s) == Unsigned(s) # <<>> /\ AllDigits(Unsigned(s))
RECURSIVE StripZeros(_)
StripZeros(s) == IF Len(s) > 1 /\ Head(s) = "0" THEN StripZeros(Tail(s)) ELSE s
\* digit strings of one length compared as numbers
RECURSIVE DigitsLe(_, _)
DigitsLe(x, y) ==
    \/ x = <<>>
    \/ DigitVal(Head(x)) < DigitVal(Head(y))
    \/ Head(x) = Head(y) /\ DigitsLe(Tail(x), Tail(y))
\* whether the literal's value is an i32, told from its digits alone
FitsI32(s) ==
    LET z == StripZeros(Unsigned(s))
    IN  \/ Len(z) < 10
        \/ Len(z) = 10 /\ DigitsLe(z, IF Head(s) = "-" THEN Unsigned(I32MinLiteral)
                                       ELSE I32MaxLiteral)
RECURSIVE SignedVal(_, _, _)
SignedVal(z, neg, acc) ==
    IF z = <<>> THEN acc
    ELSE SignedVal(Tail(z), neg,
                   IF neg THEN acc * 10 - DigitVal(Head(z)) ELSE acc * 10 + DigitVal(Head(z)))
LiteralValue(s) == SignedVal(StripZeros(Unsigned(s)), Head(s) = "-", 0)

OneField(t, fty) ==
    /\ Completed(t, "from_props", "TestConfig1")
    /\ Len(decls["TestConfig1"]) = 1
    /\ decls["TestConfig1"][1].ty = fty
    /\ NameAt("TestConfig1", 1) \in DOMAIN Props(t)
RawOf(t) == Props(t)[NameAt("TestConfig1", 1)]
InvalidValueFor(t) ==
    FailsWith(Res(t), "InvalidValue", NameAt("TestConfig1", 1))

StringField(t) ==
    /\ Completed(t, "from_props", "TestConfig1")
    /\ Len(decls["TestConfig1"]) = 1
    /\ decls["TestConfig1"][1].ty = "String"
    /\ ~decls["TestConfig1"][1].optional
    /\ KeyAt("TestConfig1", 1).validator = None

C24_PresenceNotEmptiness ==
    \A t \in Threads :
        StringField(t) =>
            LET name == NameAt("TestConfig1", 1)
                dflt == KeyAt("TestConfig1", 1).default_value
            IN  IF name \in DOMAIN Props(t)
                THEN Res(t) = Ok(<<[field |-> name, val |-> Trim(Props(t)[name])]>>)
                ELSE IF IsSome(dflt)
                THEN Res(t) = Ok(<<[field |-> name, val |-> Trim(Unwrap(dflt))]>>)
                ELSE Res(t) = Err(MissingName(name))

\* the default "" taken for an omitted key
C24_Witness ==
    \E t \in Threads :
        /\ StringField(t)
        /\ KeyAt("TestConfig1", 1).default_value = Some(<<>>)
        /\ Props(t) = NoProps
        /\ Res(t) = Ok(<<[field |-> "a", val |-> <<>>]>>)

(***************************************************************************)
(* C25: a field's validator runs on the chosen raw string before the codec *)
(* parses it, and the codec parses only what the validator accepted: a     *)
(* string that violates the validator and is no literal of the type gives  *)
(* the validator's error ("20.5" on an integer field with Range [0, 14]    *)
(* gives ValidationFailed), a string that passes the validator but is no   *)
(* literal ("5.5") gives the codec's InvalidValue.                         *)
(***************************************************************************)
ValidatedField(t) ==
    /\ Completed(t, "from_props", "TestConfig1")
    /\ Len(decls["TestConfig1"]) = 1
    /\ ~decls["TestConfig1"][1].optional
    /\ IsSome(KeyAt("TestConfig1", 1).validator)
    /\ IsSome(Supplied(t, "TestConfig1", 1))
ValidatorSays(t) ==
    Validate(Unwrap(KeyAt("TestConfig1", 1).validator), NameAt("TestConfig1", 1),
             Unwrap(Supplied(t, "TestConfig1", 1)))
CodecSays(t) ==
    Parse(decls["TestConfig1"][1].ty, NameAt("TestConfig1", 1),
          Unwrap(Supplied(t, "TestConfig1", 1)))

C25_ValidatorBeforeCodec ==
    \A t \in Threads :
        ValidatedField(t) =>
            IF ~ValidatorSays(t).ok THEN Res(t) = ValidatorSays(t)
            ELSE IF ~CodecSays(t).ok THEN Res(t) = CodecSays(t)
            ELSE Res(t) = Ok(<<[field |-> NameAt("TestConfig1", 1), val |-> CodecSays(t).val]>>)

\* "20.5": above the range and not an integer; the range's error is returned
C25_Witness ==
    \E t \in Threads :
        /\ ValidatedField(t)
        /\ Props(t) = [k \in {"a"} |-> <<"2", "0", ".", "5">>]
        /\ ~CodecSays(t).ok
        /\ Res(t).err.kind = "ValidationFailed"
        /\ Res(t).err.message.text = "must be no more than"

(***************************************************************************)
(* C26: a registry that was built iterates its keys in the order of the    *)
(* input descriptors; a merged schema's keys are the sub-schemas' keys     *)
(* concatenated in the order the merge fields are declared, each           *)
(* descriptor with the name, default, validator, documentation, group,     *)
(* importance and internal flag it has in its sub-schema.                  *)
(***************************************************************************)
DeclaredKeys(ty) ==
    IF ty \in LeafStructs THEN KeysOf(decls[ty])
    ELSE Concat([i \in FieldIdx(ty) |-> KeysOf(decls[SubStructs(ty)[i]])])

C26_DeclarationOrderKept ==
    \A t \in Threads : \A ty \in Structs : \A fn \in {"try_from", "config_def"} :
        (Completed(t, fn, ty) /\ Res(t).ok) =>
            config_keys(Registry(t)) = DeclaredKeys(ty)

\* a merged registry: "a" with its default, validator and group from the
\* first sub-schema, then "b" from the second
C26_Witness ==
    \E t \in Threads : \E ty \in Composites :
        /\ Completed(t, "config_def", ty) /\ Res(t).ok
        /\ Len(config_keys(Registry(t))) = 2
        /\ config_keys(Registry(t))[1] =
              ConfigKey("a", Some(S5), Some(RangeBetween(0, 14)), Some("g"))
        /\ config_keys(Registry(t))[2] = decls["TestConfig2"][1].key

(***************************************************************************)
(* C27: entries of the raw map under keys that no declared field uses are  *)
(* ignored: with such entries added, removed or changed, resolution gives  *)
(* the same success, the same field values and the same error.             *)
(***************************************************************************)
DeclaredNames(ty) == {DeclaredKeys(ty)[i].name : i \in 1..Len(DeclaredKeys(ty))}
UnusedKeys(t, ty) == DOMAIN Props(t) \ DeclaredNames(ty)

C27_UnusedKeysIgnored ==
    \A t \in Threads : \A ty \in Structs :
        Completed(t, "from_props", ty) =>
            \A extra \in SUBSET UnusedKeys(t, ty) :
                Res(t) = SeqFromProps(ty, Restrict(Props(t), DOMAIN Props(t) \ extra))

\* a struct declaring only "a" resolved from a map that also has "b"
C27_Witness ==
    \E t \in Threads : \E ty \in LeafStructs :
        /\ Completed(t, "from_props", ty) /\ Res(t).ok
        /\ DeclaredNames(ty) = {"a"}
        /\ UnusedKeys(t, ty) = {"b"}
        /\ "a" \in DOMAIN Props(t)

(***************************************************************************)
(* C28: the list validator and the list codec agree on every raw string:   *)
(* ValidList takes the input for the empty list exactly when the codec's   *)
(* Vec<String> parse gives an empty list, and whenever validate returns Ok *)
(* the parsed list has no duplicate item, no empty item and, with an       *)
(* allow-list, only items of the allow-list.                               *)
(***************************************************************************)
CodecList == Parse("Vec<String>", arg.name, arg.value).val
RefusedAsEmpty(r) ==
    FailsWith(r, "ValidationFailed", arg.name) /\ r.err.message.text \in EmptyListMessages

C28_ValidatorAgreesWithCodec ==
    Validated("ValidList") =>
        /\ Parse("Vec<String>", arg.name, arg.value).ok
        /\ ~TheValidator.is_empty_allowed =>
              (RefusedAsEmpty(ValidateResult) <=> CodecList = <<>>)
        /\ (TheValidator.is_empty_allowed /\ CodecList = <<>>) => ValidateResult.ok
        /\ ValidateResult.ok =>
              /\ ~HasDuplicate(CodecList)
              /\ \A i \in 1..Len(CodecList) :
                    /\ CodecList[i] # <<>>
                    /\ TheValidator.valid_strings # <<>> =>
                          CodecList[i] \in ToSet(TheValidator.valid_strings)

\* a blank string: refused as the empty list, and parsed to the empty list
C28_Witness ==
    /\ Validated("ValidList")
    /\ arg.value = <<" ">>
    /\ ~TheValidator.is_empty_allowed
    /\ RefusedAsEmpty(ValidateResult)
    /\ CodecList = <<>>

C30_ConstructionErrorEveryCall ==
    \A t \in Threads : \A ty \in Structs :
        (Completed(t, "from_props", ty) /\ ~SeqSchema(ty).ok) =>
            /\ ~Res(t).ok
            /\ Res(t).err = SeqSchema(ty).err
            /\ IsDefinedTwice(Res(t).err)
            /\ log[t] = <<>>
            /\ cell[ty].state # "COMPLETE"

\* both calls were made: the composite failed on the shared key "b" a second
\* time, each of its sub-schemas being built
C30_Witness ==
    \E t \in Threads : \E ty \in Composites :
        /\ Completed(t, "from_props", ty)
        /\ Res(t).err = DefinedTwice("b")
        /\ SharedNames(ty) = {"b"}
        /\ \A i \in FieldIdx(ty) : cell[SubStructs(ty)[i]].state = "COMPLETE"
        /\ runs[ty] = 2
        /\ calls = 0

====
